---- MODULE Spec2Model ----
(***************************************************************************)
(* BER_TEA_bot: per-user conversational forms (aiogram FSM) over a product *)
(* catalog, an order table and the CDEK courier client.                    *)
(*                                                                         *)
(* Texts (message texts, callback tokens) are sequences of one-character   *)
(* strings, so that strip/lower/split/startswith, the float and int        *)
(* parsers and the phone pattern are computed as the Python code computes  *)
(* them.  The module is written in ASCII: Russian texts are transliterated *)
(* letter by letter and each emoji of a button label is one ASCII symbol.  *)
(* Money is counted in hundredths of a rouble.                             *)
(***************************************************************************)
EXTENDS Integers, Sequences, FiniteSets, TLC

----------------------------------------------------------------------------
(* Bounds of the model *)

MaxOrders == 1

----------------------------------------------------------------------------
(* Python dicts, SQL rows and messages are records; a key that is missing, *)
(* a value that is None and a column that is NULL are all an absent field. *)

Has(rec, key) == key \in DOMAIN rec

Without(rec, key) == [k \in DOMAIN rec \ {key} |-> rec[k]]

(* dict | {key: value, ...} *)
Merge(rec, upd) ==
  [k \in DOMAIN rec \cup DOMAIN upd |->
     IF k \in DOMAIN upd THEN upd[k] ELSE rec[k]]

(* Button labels and callback tokens *)

BtnStartOrder == <<"$", " ", "O", "f", "o", "r", "m", "i", "t", " ", "z", "a", "k", "a", "z">>
BtnDownload == <<"i", " ", "Z", "a", "g", "r", "u", "z", "i", "t">>
BtnEditProduct == <<"$", " ", "I", "z", "m", "e", "n", "i", "t">>
BtnStats == <<"%", " ", "S", "t", "a", "t", "i", "s", "t", "i", "k", "a">>
BtnAdminReviews == <<"*", " ", "O", "t", "z", "y", "v", "y">>
BtnClearStats == <<"~", " ", "S", "b", "r", "o", "s", "i", "t", " ", "s", "t", "a", "t", "i", "s", "t", "i", "k", "u">>
BtnLeaveReview == <<"*", " ", "O", "s", "t", "a", "v", "i", "t", " ", "o", "t", "z", "y", "v">>
BtnSuggestions == <<"^", " ", "P", "r", "e", "d", "l", "o", "z", "h", "e", "n", "i", "y", "a">>
BtnAssortment == <<"&", " ", "A", "s", "s", "o", "r", "t", "i", "m", "e", "n", "t">>
BtnShopLink == <<"$", " ", "S", "s", "y", "l", "k", "a", " ", "n", "a", " ", "m", "a", "g", "a", "z", "i", "n">>
CmdStart == <<"/", "s", "t", "a", "r", "t">>

TokOrderProd == <<"o", "r", "d", "e", "r", "_", "p", "r", "o", "d", "_">>
TokPvzPage == <<"p", "v", "z", "_", "p", "a", "g", "e", "_">>
TokPvz == <<"p", "v", "z", "_">>
TokOrderCancel == <<"o", "r", "d", "e", "r", "_", "c", "a", "n", "c", "e", "l">>
TokOrderConfirm == <<"o", "r", "d", "e", "r", "_", "c", "o", "n", "f", "i", "r", "m">>
TokEditProduct == <<"e", "d", "i", "t", "_", "p", "r", "o", "d", "u", "c", "t", "_">>
TokEditField == <<"e", "d", "i", "t", "_", "f", "i", "e", "l", "d", "_">>
TokEditDone == <<"e", "d", "i", "t", "_", "d", "o", "n", "e">>
TokConfirmDeleteProduct == <<"c", "o", "n", "f", "i", "r", "m", "_", "d", "e", "l", "e", "t", "e", "_", "p", "r", "o", "d", "u", "c", "t", "_">>
TokDeleteProduct == <<"d", "e", "l", "e", "t", "e", "_", "p", "r", "o", "d", "u", "c", "t", "_">>
TokCancelDeleteProduct == <<"c", "a", "n", "c", "e", "l", "_", "d", "e", "l", "e", "t", "e", "_", "p", "r", "o", "d", "u", "c", "t">>
TokDeleteReview == <<"d", "e", "l", "e", "t", "e", "_", "r", "e", "v", "i", "e", "w", "_">>
TokConfirmDelete == <<"c", "o", "n", "f", "i", "r", "m", "_", "d", "e", "l", "e", "t", "e", "_">>
TokCancelDelete == <<"c", "a", "n", "c", "e", "l", "_", "d", "e", "l", "e", "t", "e", "_">>
TokClearStatsConfirm == <<"c", "l", "e", "a", "r", "_", "s", "t", "a", "t", "s", "_", "c", "o", "n", "f", "i", "r", "m">>
TokClearStatsCancel == <<"c", "l", "e", "a", "r", "_", "s", "t", "a", "t", "s", "_", "c", "a", "n", "c", "e", "l">>
TokSkipPhoto == <<"s", "k", "i", "p", "_", "p", "h", "o", "t", "o">>
TokReviewStart == <<"r", "e", "v", "i", "e", "w", ":", "s", "t", "a", "r", "t">>
TokReviewProduct == <<"r", "e", "v", "i", "e", "w", "_", "p", "r", "o", "d", "u", "c", "t", "_">>
TokReviewShow == <<"r", "e", "v", "i", "e", "w", ":", "s", "h", "o", "w">>
TokShowReviews == <<"s", "h", "o", "w", "_", "r", "e", "v", "i", "e", "w", "s", "_">>
TokReviewsPage == <<"r", "e", "v", "i", "e", "w", "s", "_", "p", "a", "g", "e", "_">>
TokEditReview == <<"e", "d", "i", "t", "_", "r", "e", "v", "i", "e", "w", "_">>
TokSuggestionsStart == <<"s", "u", "g", "g", "e", "s", "t", "i", "o", "n", "s", ":", "s", "t", "a", "r", "t">>

KwCancel == <<"o", "t", "m", "e", "n", "a">>
KwBack == <<"n", "a", "z", "a", "d">>
KwCancelButton == <<"!", " ", "o", "t", "m", "e", "n", "i", "t">>

----------------------------------------------------------------------------
(* str methods *)

DigitChars == {"0", "1", "2", "3", "4", "5", "6", "7", "8", "9"}
SpaceChars == {" "}

DigitVal(c) ==
  CASE c = "0" -> 0 [] c = "1" -> 1 [] c = "2" -> 2 [] c = "3" -> 3
    [] c = "4" -> 4 [] c = "5" -> 5 [] c = "6" -> 6 [] c = "7" -> 7
    [] c = "8" -> 8 [] c = "9" -> 9

DigitChar(d) == <<"0", "1", "2", "3", "4", "5", "6", "7", "8", "9">>[d + 1]

RECURSIVE lstrip(_)
lstrip(t) ==
  IF t # <<>> /\ Head(t) \in SpaceChars THEN lstrip(Tail(t)) ELSE t

RECURSIVE rstrip(_)
rstrip(t) ==
  IF t # <<>> /\ t[Len(t)] \in SpaceChars
    THEN rstrip(SubSeq(t, 1, Len(t) - 1)) ELSE t

strip(t) == rstrip(lstrip(t))

UpperChars == <<"A", "B", "C", "D", "E", "F", "G", "H", "I", "J", "K", "L", "M",
                "N", "O", "P", "Q", "R", "S", "T", "U", "V", "W", "X", "Y", "Z">>
LowerChars == <<"a", "b", "c", "d", "e", "f", "g", "h", "i", "j", "k", "l", "m",
                "n", "o", "p", "q", "r", "s", "t", "u", "v", "w", "x", "y", "z">>

(* str.lower() on the letters of the alphabet used here *)
Lowered ==
  [A |-> "a", B |-> "b", C |-> "c", D |-> "d", E |-> "e", F |-> "f",
   G |-> "g", H |-> "h", I |-> "i", J |-> "j", K |-> "k", L |-> "l",
   M |-> "m", N |-> "n", O |-> "o", P |-> "p", Q |-> "q", R |-> "r",
   S |-> "s", T |-> "t", U |-> "u", V |-> "v", W |-> "w", X |-> "x",
   Y |-> "y", Z |-> "z"]

LowerChar(c) == IF c \in DOMAIN Lowered THEN Lowered[c] ELSE c

lower(t) == [i \in 1..Len(t) |-> LowerChar(t[i])]

startswith(t, p) == Len(t) >= Len(p) /\ SubSeq(t, 1, Len(p)) = p

replace(t, old, new) == [i \in 1..Len(t) |-> IF t[i] = old THEN new ELSE t[i]]

remove(t, old) == SelectSeq(t, LAMBDA c : c # old)

isdigit(t) == t # <<>> /\ \A i \in 1..Len(t) : t[i] \in DigitChars

(* t.split(sep)[-1] for a one-character separator *)
SplitLast(t, sep) ==
  LET cuts == {i \in 1..Len(t) : t[i] = sep}
  IN  IF cuts = {} THEN t
      ELSE SubSeq(t, (CHOOSE i \in cuts : \A j \in cuts : j <= i) + 1, Len(t))

(* t.split(p, 1)[1] for a token t that starts with p *)
AfterPrefix(t, p) == SubSeq(t, Len(p) + 1, Len(t))

RECURSIVE DigitsValue(_)
DigitsValue(t) ==
  IF t = <<>> THEN 0
  ELSE 10 * DigitsValue(SubSeq(t, 1, Len(t) - 1)) + DigitVal(t[Len(t)])

(* int(t): ValueError unless an optionally signed run of digits *)
int(t) ==
  LET s == strip(t)
      signed == s # <<>> /\ Head(s) \in {"+", "-"}
      body == IF signed THEN Tail(s) ELSE s
  IN  IF isdigit(body)
        THEN [ok |-> TRUE,
              val |-> IF signed /\ Head(s) = "-"
                        THEN 0 - DigitsValue(body) ELSE DigitsValue(body)]
        ELSE [ok |-> FALSE, val |-> 0]

(* float(t) for texts over digits, sign, point: ValueError otherwise.    *)
(* val is the value in hundredths, pos tells whether the value is > 0.   *)
float(t) ==
  LET s == strip(t)
      signed == s # <<>> /\ Head(s) \in {"+", "-"}
      neg == signed /\ Head(s) = "-"
      body == IF signed THEN Tail(s) ELSE s
      dots == {i \in 1..Len(body) : body[i] = "."}
      dot == IF dots = {} THEN Len(body) + 1 ELSE CHOOSE i \in dots : TRUE
      whole == SubSeq(body, 1, dot - 1)
      frac == SubSeq(body, dot + 1, Len(body))
      wellFormed == /\ Cardinality(dots) <= 1
                    /\ \A i \in 1..Len(body) : body[i] \in DigitChars \cup {"."}
                    /\ Len(whole) + Len(frac) > 0
      frac2 == SubSeq(frac \o <<"0", "0">>, 1, 2)
      mag == 100 * DigitsValue(whole) + DigitsValue(frac2)
      nonzero == \E i \in 1..Len(body) : body[i] \in DigitChars \ {"0"}
  IN  IF wellFormed
        THEN [ok |-> TRUE, val |-> IF neg THEN 0 - mag ELSE mag,
              pos |-> nonzero /\ ~neg]
        ELSE [ok |-> FALSE, val |-> 0, pos |-> FALSE]

(* str(n) for an integer *)
RECURSIVE Decimal(_)
Decimal(n) ==
  IF n < 10 THEN <<DigitChar(n)>>
  ELSE Decimal(n \div 10) \o <<DigitChar(n % 10)>>

str(n) == IF n < 0 THEN <<"-">> \o Decimal(0 - n) ELSE Decimal(n)

----------------------------------------------------------------------------
(* utils/validators.py *)

is_positive_number(value) ==
  IF value = <<>> THEN FALSE
  ELSE LET num == float(replace(strip(value), ",", "."))
       IN  num.ok /\ num.pos

(* PHONE_PATTERN: the set of positions reachable after each pattern item *)
OptClass(t, S, class) ==
  S \cup {p + 1 : p \in {q \in S : q <= Len(t) /\ t[q] \in class}}

ReqClass(t, S, class) ==
  {p + 1 : p \in {q \in S : q <= Len(t) /\ t[q] \in class}}

RECURSIVE ReqDigits(_, _, _)
ReqDigits(t, S, n) ==
  IF n = 0 THEN S ELSE ReqDigits(t, ReqClass(t, S, DigitChars), n - 1)

PhoneSeparators == SpaceChars \cup {"-"}

PHONE_PATTERN(t) ==
  LET p0 == {1}
                \cup (IF Len(t) >= 1 /\ t[1] \in {"7", "8"} THEN {2} ELSE {})
                \cup (IF Len(t) >= 2 /\ t[1] = "+" /\ t[2] = "7" THEN {3} ELSE {})
      p1 == OptClass(t, p0, PhoneSeparators)
      p2 == OptClass(t, p1, {"("})
      p3 == ReqDigits(t, p2, 3)
      p4 == OptClass(t, p3, {")"})
      p5 == OptClass(t, p4, PhoneSeparators)
      p6 == ReqDigits(t, p5, 3)
      p7 == OptClass(t, p6, PhoneSeparators)
      p8 == ReqDigits(t, p7, 2)
      p9 == OptClass(t, p8, PhoneSeparators)
      p10 == ReqDigits(t, p9, 2)
  IN  Len(t) + 1 \in p10

(* a validator that takes any text for a phone number *)
is_valid_phone_lenient(text) == TRUE

is_valid_phone(text) == PHONE_PATTERN(strip(text))

----------------------------------------------------------------------------
(* config.py *)

ADMIN_ID == 1

Users == {1, 2}

is_admin(user_id) == user_id = ADMIN_ID

PRODUCT_LIST == <<"photo_file_id", "name", "weight", "description", "price">>

(* CONTACT_SKIP_VALUES, transliterated: net, -, ., propustit and the empty *)
(* text                                                                    *)
CONTACT_SKIP_VALUES ==
  {<<"n", "e", "t">>, <<"-">>, <<".">>,
   <<"p", "r", "o", "p", "u", "s", "t", "i", "t">>, <<>>}

----------------------------------------------------------------------------
(* states/admin_states.py, states/client_states.py *)

FSMAdmin ==
  {"FSMAdmin:photo", "FSMAdmin:name", "FSMAdmin:weight",
   "FSMAdmin:description", "FSMAdmin:price"}

FSMAdminEdit ==
  {"FSMAdminEdit:waiting_for_field", "FSMAdminEdit:editing_photo",
   "FSMAdminEdit:editing_name", "FSMAdminEdit:editing_weight",
   "FSMAdminEdit:editing_description", "FSMAdminEdit:editing_price"}

FSMReview ==
  {"FSMReview:select_product", "FSMReview:text", "FSMReview:photo",
   "FSMReview:contact"}

FSMOrder ==
  {"FSMOrder:select_product", "FSMOrder:select_quantity",
   "FSMOrder:enter_city", "FSMOrder:select_pvz", "FSMOrder:request_contact",
   "FSMOrder:confirm"}

FSMSuggestions ==
  {"FSMSuggestions:text", "FSMSuggestions:photo", "FSMSuggestions:contact"}

FSMReviewEdit == {"FSMReviewEdit:editing_text", "FSMReviewEdit:editing_contact"}

----------------------------------------------------------------------------
(* The program's state *)

VARIABLES
  sessions,     \* MemoryStorage: user -> [state, data]
  products,     \* table products: sequence of rows in insertion order
  products_id_seq, \* the serial behind products.id
  orders,       \* table orders: sequence of rows in insertion order
  adminInbox,   \* number of "new order" messages delivered to ADMIN_ID
  cdek,         \* CDEKClient: [access_token, token_expires_at]
  now,          \* time.time()
  last,         \* outcome of the handler that ran last
  e2e,          \* progress of user 2 along the end-to-end order scenario
  reviews,      \* table reviews: sequence of rows in insertion order
  reviews_id_seq, \* the serial behind reviews.id
  entered,      \* user -> what the user gave to the form since its trigger
  censor,       \* get_censored_words: cenz.json, the reads of it, and _cache
  pending       \* handlers suspended at an await: their user, position, locals

vars == <<sessions, products, products_id_seq, orders, adminInbox, cdek, now, last, e2e, reviews, reviews_id_seq, entered, censor, pending>>

(* FSMContext; the state None is written NoState *)
NoState == "None"

EmptyData == [k \in {} |-> TRUE]

set_state(sess, st) == [sess EXCEPT !.state = st]

update_data(sess, upd) == [sess EXCEPT !.data = Merge(@, upd)]

(* state.clear() that resets the state and keeps the data *)
clear_state_only(sess) == [state |-> NoState, data |-> sess.data]

clear(sess) == [state |-> NoState, data |-> EmptyData]

NoError == "no_error"
NoReply == "no_reply"

(* What is recorded of the handler that ran last: who sent the event, the  *)
(* handler, the session state it found, the event (a text by its kind, a   *)
(* callback by its token), the exception it raised if any, its answer to   *)
(* the user, and whether a courier call it made failed.                    *)
(* main.py: the routers included in the dispatcher, in order *)
IncludedRouters == <<"admin", "client", "order", "suggestions", "common">>

(* The router that registers an errors observer, handlers/error_handler.py *)
ErrorsRouter == "error_handler"

(* error_handler: the notice sent to the user of the failed update *)
error_handler(reply) == "internal_error"

(* Dispatcher.feed_update: an exception that leaves a handler is passed to *)
(* the errors observers of the included routers; when none takes it, the   *)
(* dispatcher logs it and goes on to the next update, and the user gets    *)
(* what the handler had sent before it raised.                             *)
feed_update(error, reply) ==
  IF error # NoError /\ \E i \in 1..Len(IncludedRouters) : IncludedRouters[i] = ErrorsRouter
    THEN error_handler(reply)
    ELSE reply

Outcome(u, handler, input, error, reply) ==
  [user |-> u, handler |-> handler, from |-> sessions[u].state,
   input |-> input, error |-> error, reply |-> feed_update(error, reply),
   courier |-> "not_called"]

----------------------------------------------------------------------------
(* database.py *)

Alphabet ==
  <<" ", ",", "-", ".", "0", "1", "2", "3", "4", "5", "6", "7", "8", "9">>
    \o UpperChars \o LowerChars

CharCode(c) == CHOOSE i \in 1..Len(Alphabet) : Alphabet[i] = c

RECURSIVE TextLess(_, _)
TextLess(a, b) ==
  IF b = <<>> THEN FALSE
  ELSE IF a = <<>> THEN TRUE
  ELSE IF Head(a) # Head(b) THEN CharCode(Head(a)) < CharCode(Head(b))
  ELSE TextLess(Tail(a), Tail(b))

(* SELECT * FROM products ORDER BY name *)
load_products(rows) ==
  LET before(i, j) == \/ TextLess(rows[i].name, rows[j].name)
                      \/ rows[i].name = rows[j].name /\ i < j
      rank(j) == Cardinality({i \in 1..Len(rows) : before(i, j)})
  IN  [k \in 1..Len(rows) |->
         rows[CHOOSE j \in 1..Len(rows) : rank(j) = k - 1]]

(* UPDATE products ... WHERE id, or INSERT with the next serial id *)
save_product(rows, seq, product_data) ==
  LET row(id) == Merge([id |-> id,
                        name |-> product_data.name,
                        weight |-> product_data.weight,
                        description |-> product_data.description,
                        price |-> product_data.price],
                       IF Has(product_data, "photo_file_id")
                         THEN [photo_file_id |-> product_data.photo_file_id]
                         ELSE EmptyData)
  IN  IF Has(product_data, "id")
        THEN [rows |-> [i \in 1..Len(rows) |->
                          IF rows[i].id = product_data.id
                            THEN row(product_data.id) ELSE rows[i]],
              seq |-> seq]
        ELSE [rows |-> Append(rows, row(seq + 1)), seq |-> seq + 1]

(* DELETE FROM products WHERE id; orders.product_id is ON DELETE SET NULL *)
(* orders.product_id declared ON DELETE CASCADE *)
delete_product_cascade(rows, orderRows, product_id) ==
  [products |-> SelectSeq(rows, LAMBDA r : r.id # product_id),
   orders |-> SelectSeq(orderRows,
                        LAMBDA r : ~(Has(r, "product_id")
                                     /\ r.product_id = product_id))]

(* DELETE FROM products; orders.product_id is ON DELETE SET NULL *)
delete_product(rows, orderRows, product_id) ==
  [products |-> SelectSeq(rows, LAMBDA r : r.id # product_id),
   orders |-> [i \in 1..Len(orderRows) |->
                 IF Has(orderRows[i], "product_id")
                    /\ orderRows[i].product_id = product_id
                   THEN Without(orderRows[i], "product_id")
                   ELSE orderRows[i]]]

(* add_review without the reference from reviews.product_id to products *)
add_review_unreferenced(reviewRows, seq, rows, fields) ==
  IF ~Has(fields, "text")
    THEN [raised |-> TRUE, rows |-> reviewRows, seq |-> seq + 1]
    ELSE [raised |-> FALSE,
          rows |-> Append(reviewRows, Merge([id |-> seq + 1], fields)),
          seq |-> seq + 1]

(* INSERT INTO reviews: text is NOT NULL and product_id references a       *)
(* product, so the insert raises when the text is None or the product is   *)
(* not in the table (the id drawn from the sequence is then lost); None    *)
(* for contact or photo_file_id is an absent field.                        *)
add_review(reviewRows, seq, rows, fields) ==
  IF ~Has(fields, "text") \/ \A i \in 1..Len(rows) : rows[i].id # fields.product_id
    THEN [raised |-> TRUE, rows |-> reviewRows, seq |-> seq + 1]
    ELSE [raised |-> FALSE,
          rows |-> Append(reviewRows, Merge([id |-> seq + 1], fields)),
          seq |-> seq + 1]

(* SELECT * FROM reviews WHERE id: the matching rows *)
get_review_by_id(reviewRows, review_id) ==
  SelectSeq(reviewRows, LAMBDA r : r.id = review_id)

(* UPDATE reviews SET text, contact with the WHERE id left out *)
update_review_everywhere(reviewRows, review_id, text, contact) ==
  [i \in 1..Len(reviewRows) |->
     Merge(Without(reviewRows[i], "contact"), Merge([text |-> text], contact))]

(* UPDATE reviews SET text, contact WHERE id *)
update_review(reviewRows, review_id, text, contact) ==
  [i \in 1..Len(reviewRows) |->
     IF reviewRows[i].id = review_id
       THEN Merge(Without(reviewRows[i], "contact"),
                  Merge([text |-> text], contact))
       ELSE reviewRows[i]]

(* reviews.product_id declared ON DELETE SET NULL *)
delete_reviews_set_null(reviewRows, product_id) ==
  [i \in 1..Len(reviewRows) |->
     IF Has(reviewRows[i], "product_id") /\ reviewRows[i].product_id = product_id
       THEN Without(reviewRows[i], "product_id")
       ELSE reviewRows[i]]

(* reviews.product_id is ON DELETE CASCADE *)
delete_reviews_cascade(reviewRows, product_id) ==
  SelectSeq(reviewRows, LAMBDA r : ~(Has(r, "product_id")
                                     /\ r.product_id = product_id))

(* save_order is imported by the order handlers and is not defined in      *)
(* database.py; it is taken from the specification's recordOrder over the  *)
(* orders table of init_db: one row is inserted, id is the next serial and *)
(* status takes its default.                                               *)
save_order(orderRows, user_id, product_id, product_name, quantity, price_per_unit, total_price) ==
  Append(orderRows,
         [id |-> Len(orderRows) + 1,
          user_id |-> user_id,
          product_id |-> product_id,
          product_name |-> product_name,
          quantity |-> quantity,
          price_per_unit |-> price_per_unit,
          total_price |-> total_price,
          status |-> "completed"])

----------------------------------------------------------------------------
(* utils/cdek_api.py and the courier service behind it *)

TokenMargin == 60

(* What the courier knows: one city with pickup points, one without *)
Moskva == <<"M", "o", "s", "k", "v", "a">>
Omsk == <<"O", "m", "s", "k">>

CourierCities(name) ==
  IF name = Moskva THEN <<[code |-> 44]>>
  ELSE IF name = Omsk THEN <<[code |-> 45]>>
  ELSE <<>>

CourierPoints(city_code) ==
  IF city_code = 44
    THEN <<[code |-> <<"M", "1">>, name |-> <<"A">>,
            address |-> <<" ", "L", "1">>, address_comment |-> <<>>],
           [code |-> <<"M", "2">>, name |-> <<"B">>,
            address |-> <<>>, address_comment |-> <<"c">>]>>
    ELSE <<>>

TokenResponses ==
  {[kind |-> "ok", access_token |-> "t1", expires_in |-> 3600],
   [kind |-> "http_error"], [kind |-> "network_error"]}

CityResponses(name) ==
  {[kind |-> "network_error"], [kind |-> "status", status_code |-> 500],
   [kind |-> "status", status_code |-> 200, data |-> CourierCities(name)]}

PointResponses(city_code) ==
  {[kind |-> "network_error"], [kind |-> "status", status_code |-> 500],
   [kind |-> "status", status_code |-> 200, data |-> CourierPoints(city_code)]}

(* _get_token with the expiry taken as the courier gives it *)
_get_token_unmargined(client, time, resp) ==
  IF Has(client, "access_token") /\ client.token_expires_at > time
    THEN [raised |-> FALSE, token |-> client.access_token, client |-> client,
          requested |-> FALSE]
  ELSE IF resp.kind = "ok"
    THEN [raised |-> FALSE, token |-> resp.access_token,
          client |-> [access_token |-> resp.access_token,
                      token_expires_at |-> time + resp.expires_in],
          requested |-> TRUE]
  ELSE [raised |-> TRUE, client |-> client, requested |-> TRUE]

(* CDEKClient._get_token: the cached token, or a token request *)
_get_token(client, time, resp) ==
  IF Has(client, "access_token") /\ client.token_expires_at > time
    THEN [raised |-> FALSE, token |-> client.access_token, client |-> client,
          requested |-> FALSE]
  ELSE IF resp.kind = "ok"
    THEN [raised |-> FALSE, token |-> resp.access_token,
          client |-> [access_token |-> resp.access_token,
                      token_expires_at |->
                        time + resp.expires_in - TokenMargin],
          requested |-> TRUE]
  ELSE [raised |-> TRUE, client |-> client, requested |-> TRUE]

get_city_code_by_name(client, time, tokenResp, resp) ==
  LET tok == _get_token(client, time, tokenResp)
  IN  IF tok.raised \/ resp.kind = "network_error"
        THEN [raised |-> TRUE, client |-> tok.client]
      ELSE IF resp.status_code = 200 /\ resp.data # <<>>
        THEN [raised |-> FALSE, value |-> resp.data[1].code,
              client |-> tok.client]
      ELSE [raised |-> FALSE, client |-> tok.client]

get_pvz_by_city_code(client, time, tokenResp, resp) ==
  LET tok == _get_token(client, time, tokenResp)
  IN  IF tok.raised \/ resp.kind = "network_error"
        THEN [raised |-> TRUE, client |-> tok.client]
      ELSE IF resp.status_code = 200
        THEN [raised |-> FALSE,
              value |-> [i \in 1..Len(resp.data) |->
                           [code |-> resp.data[i].code,
                            name |-> resp.data[i].name,
                            address |-> strip(resp.data[i].address),
                            address_comment |-> resp.data[i].address_comment]],
              client |-> tok.client]
      ELSE [raised |-> FALSE, value |-> <<>>, client |-> tok.client]

----------------------------------------------------------------------------
(* main.py: the routers in the order they are included, each router's     *)
(* handlers in the order they are registered; the first handler whose     *)
(* filters pass takes the event.                                           *)


TextMessage(text) == [text |-> text]
PhotoMessage(file_id) == [photo |-> file_id]

TextIs(m, label) == Has(m, "text") /\ m.text = label

MessageHandler(u, state, m) ==
  \* handlers/admin.py
  IF Has(m, "text") /\ startswith(m.text, CmdStart)
    THEN "cmd_start"
  ELSE IF TextIs(m, BtnStats) /\ is_admin(u)
    THEN "handle_stats"
  ELSE IF TextIs(m, BtnDownload)
    THEN "cm_download"
  ELSE IF Has(m, "photo") /\ state = "FSMAdmin:photo"
    THEN "load_photo"
  ELSE IF state = "FSMAdmin:name"
    THEN "load_name"
  ELSE IF state = "FSMAdmin:weight"
    THEN "load_weight"
  ELSE IF state = "FSMAdmin:description"
    THEN "load_description"
  ELSE IF state = "FSMAdmin:price"
    THEN "load_price"
  ELSE IF TextIs(m, BtnEditProduct)
    THEN "edit_product_start"
  ELSE IF state = "FSMAdminEdit:editing_photo" /\ Has(m, "photo")
    THEN "edit_photo"
  ELSE IF state = "FSMAdminEdit:editing_photo"
    THEN "edit_photo_invalid"
  ELSE IF state = "FSMAdminEdit:editing_name"
    THEN "edit_name"
  ELSE IF state = "FSMAdminEdit:editing_weight"
    THEN "edit_weight"
  ELSE IF state = "FSMAdminEdit:editing_description"
    THEN "edit_description"
  ELSE IF state = "FSMAdminEdit:editing_price"
    THEN "edit_price"
  ELSE IF TextIs(m, BtnAdminReviews)
    THEN "show_reviews"
  ELSE IF TextIs(m, BtnClearStats)
    THEN "ask_clear_stats"
  \* handlers/client.py
  ELSE IF TextIs(m, BtnLeaveReview)
    THEN "handle_reviews_button"
  ELSE IF state = "FSMReview:text"
    THEN "load_review_text"
  ELSE IF state = "FSMReview:photo"
    THEN "load_review_photo"
  ELSE IF state = "FSMReview:contact"
    THEN "load_review_contact"
  ELSE IF state = "FSMReviewEdit:editing_text"
    THEN "process_edit_text"
  ELSE IF state = "FSMReviewEdit:editing_contact"
    THEN "process_edit_contact"
  \* handlers/client_order_handlers.py
  ELSE IF TextIs(m, BtnStartOrder)
    THEN "start_order"
  ELSE IF state = "FSMOrder:select_quantity"
    THEN "select_quantity"
  ELSE IF state = "FSMOrder:enter_city"
    THEN "enter_city"
  ELSE IF state = "FSMOrder:request_contact"
    THEN "process_contact_text"
  \* handlers/suggestions.py
  ELSE IF TextIs(m, BtnSuggestions)
    THEN "handle_suggestions_button"
  ELSE IF state = "FSMSuggestions:text"
    THEN "load_suggestions_text"
  ELSE IF state = "FSMSuggestions:photo"
    THEN "load_suggestions_photo"
  ELSE IF state = "FSMSuggestions:contact"
    THEN "load_suggestions_contact"
  \* handlers/common.py
  ELSE IF TextIs(m, BtnAssortment)
    THEN "show_assortment"
  ELSE IF TextIs(m, BtnShopLink)
    THEN "shop_link"
  ELSE "echo_handler"


CallbackHandler(u, state, data) ==
  \* handlers/admin.py
  IF startswith(data, TokEditProduct)
    THEN "process_edit_product"
  ELSE IF startswith(data, TokEditField)
    THEN "edit_field_selected"
  ELSE IF data = TokEditDone
    THEN "finish_editing"
  ELSE IF startswith(data, TokConfirmDeleteProduct)
    THEN "confirm_delete_product"
  ELSE IF startswith(data, TokDeleteProduct)
    THEN "handle_delete_product"
  ELSE IF data = TokCancelDeleteProduct
    THEN "cancel_delete_product"
  ELSE IF startswith(data, TokDeleteReview)
    THEN "delete_review"
  ELSE IF startswith(data, TokConfirmDelete)
    THEN "confirm_delete_review"
  ELSE IF startswith(data, TokCancelDelete)
    THEN "cancel_delete_review"
  ELSE IF data = TokClearStatsConfirm
    THEN "do_clear_stats"
  ELSE IF data = TokClearStatsCancel
    THEN "cancel_clear_stats"
  \* handlers/client.py
  ELSE IF data = TokSkipPhoto /\ state = "FSMReview:photo"
    THEN "skip_review_photo"
  ELSE IF data = TokReviewStart
    THEN "start_review"
  ELSE IF startswith(data, TokReviewProduct)
    THEN "select_review_product"
  ELSE IF data = TokReviewShow
    THEN "get_reviews"
  ELSE IF startswith(data, TokShowReviews)
    THEN "show_reviews_for_product"
  ELSE IF startswith(data, TokReviewsPage)
    THEN "reviews_pagination"
  ELSE IF startswith(data, TokEditReview)
    THEN "start_edit_review"
  ELSE IF data = TokSkipPhoto /\ state = "FSMReviewEdit:editing_contact"
    THEN "skip_edit_contact"
  \* handlers/client_order_handlers.py
  ELSE IF state = "FSMOrder:select_product" /\ startswith(data, TokOrderProd)
    THEN "select_product"
  ELSE IF state = "FSMOrder:select_pvz" /\ startswith(data, TokPvzPage)
    THEN "paginate_pvz_list"
  ELSE IF state = "FSMOrder:select_pvz" /\ startswith(data, TokPvz)
    THEN "select_pvz_handler"
  ELSE IF state \in FSMOrder /\ data = TokOrderCancel
    THEN "cancel_order"
  ELSE IF data = TokOrderConfirm
    THEN "confirm_order"
  \* handlers/suggestions.py
  ELSE IF data = TokSkipPhoto /\ state = "FSMSuggestions:photo"
    THEN "skip_suggestions_photo"
  ELSE IF data = TokSuggestionsStart
    THEN "start_suggestions"
  ELSE "unhandled"


----------------------------------------------------------------------------
(* The end-to-end order scenario followed by one customer: step k is set   *)
(* when the customer's last k events were the first k events of            *)
(*   start-order, order_prod_<id of a product priced 300>, "2", a city     *)
(*   resolved with pickup points, pvz_<listed code>, a valid phone,        *)
(*   order_confirm                                                          *)
(* begun with no session and not crossed by a change of the tables.        *)

E2EUser == CHOOSE u \in Users : ~is_admin(u)

E2EOff == [step |-> 0, base |-> 0, notes |-> 0]

OrdersOf(rows, u) == SelectSeq(rows, LAMBDA r : r.user_id = u)

Track(u, k) ==
  IF u # E2EUser
    THEN IF <<products', orders', adminInbox'>> = <<products, orders, adminInbox>>
           THEN e2e ELSE E2EOff
  ELSE IF k = 1
    THEN IF sessions[u] = clear(sessions[u])
           THEN [step |-> 1, base |-> Len(OrdersOf(orders, u)),
                 notes |-> adminInbox]
           ELSE E2EOff
  ELSE IF k > 1 /\ e2e.step = k - 1 THEN [e2e EXCEPT !.step = k]
  ELSE E2EOff

PricedAt(rows, id, price) ==
  \E i \in 1..Len(rows) : rows[i].id = id /\ rows[i].price = price

----------------------------------------------------------------------------
(* keyboards/client_kb.py.  A keyboard is kept by the callback tokens of   *)
(* its buttons: one row per pickup point, then the navigation row.  The    *)
(* button labels (the street cut out of the address) are left out.         *)

items_per_page == 5

(* s[start:end] *)
SliceIndex(i, len) ==
  IF i < 0 THEN (IF i + len < 0 THEN 0 ELSE i + len)
  ELSE IF i > len THEN len ELSE i

Slice(s, start, end) ==
  LET lo == SliceIndex(start, Len(s))
      hi == SliceIndex(end, Len(s))
  IN  IF lo >= hi THEN <<>> ELSE SubSeq(s, lo + 1, hi)

(* the forward button offered whenever the page is full *)
more_pages_inclusive(end, len) == end <= len

(* if end < len(pvz_list) *)
more_pages(end, len) == end < len

get_pvz_pagination_kb(pvz_list, page) ==
  LET start == page * items_per_page
      end == start + items_per_page
      current_page == Slice(pvz_list, start, end)
  IN  [buttons |-> [i \in 1..Len(current_page) |->
                      TokPvz \o current_page[i].code],
       nav |-> (IF page > 0 THEN <<TokPvzPage \o str(page - 1)>> ELSE <<>>)
               \o (IF more_pages(end, Len(pvz_list))
                     THEN <<TokPvzPage \o str(page + 1)>> ELSE <<>>)]

----------------------------------------------------------------------------
(* handlers/client_order_handlers.py *)

CancelKeywords == {KwCancel, KwBack, KwCancelButton}

(* The kinds of text the forms tell apart *)
TextClass(text) ==
  LET t == strip(text)
  IN  IF t = <<>> THEN "blank"
      ELSE IF lower(t) \in CancelKeywords THEN "cancel_keyword"
      ELSE IF isdigit(t) /\ DigitsValue(t) > 0 THEN "positive_integer"
      ELSE "other"

Sent(m) ==
  IF Has(m, "text") THEN [kind |-> "text", class |-> TextClass(m.text)]
  ELSE [kind |-> "photo", class |-> "photo"]

Pressed(cb) == [kind |-> "callback", data |-> cb]

(* The outcome of a handler together with the message it was given *)
Handled(u, handler, m, error, reply) ==
  Merge(Outcome(u, handler, Sent(m), error, reply), [message |-> m])

Session(u) == sessions[u]

Put(u, sess) == sessions' = [sessions EXCEPT ![u] = sess]

Tables == <<products, products_id_seq, orders, adminInbox>>

Reviews == <<reviews, reviews_id_seq>>

(* The values a user gave to a form, step by step, from the first step    *)
(* after the trigger that started it.                                      *)
NoForm == [form |-> "none"]

Started(u, form, upd) == [entered EXCEPT ![u] = Merge([form |-> form], upd)]

Gave(u, upd) == [entered EXCEPT ![u] = Merge(@, upd)]

(* next(p for p in products if p['id'] == product_id): the matching rows *)
Matching(rows, product_id) == SelectSeq(rows, LAMBDA p : p.id = product_id)

start_order(u, m) ==
  /\ TextIs(m, BtnStartOrder)
  /\ MessageHandler(u, Session(u).state, m) = "start_order"
  /\ IF load_products(products) = <<>>
       THEN /\ UNCHANGED sessions
            /\ last' = Outcome(u, "start_order", Sent(m), NoError, "no_products")
       ELSE /\ Put(u, set_state(Session(u), "FSMOrder:select_product"))
            /\ last' = Outcome(u, "start_order", Sent(m), NoError, "choose_product")
  /\ UNCHANGED <<Tables, Reviews, entered, cdek, now, censor, pending>>
  /\ e2e' = Track(u, IF \E i \in 1..Len(products) :
                            PricedAt(products, products[i].id, 30000)
                        THEN 1 ELSE 0)

select_product(u, data) ==
  /\ Session(u).state = "FSMOrder:select_product"
  /\ startswith(data, TokOrderProd)
  /\ CallbackHandler(u, Session(u).state, data) = "select_product"
  /\ UNCHANGED <<Tables, Reviews, entered, cdek, now, censor, pending>>
  /\ LET product_id == int(SplitLast(data, "_"))
     IN  /\ IF ~product_id.ok
              THEN /\ UNCHANGED sessions
                   /\ last' = Outcome(u, "select_product", Pressed(data), "ValueError", NoReply)
              ELSE /\ Put(u, set_state(
                            update_data(Session(u),
                                        [product_id |-> product_id.val]),
                            "FSMOrder:select_quantity"))
                   /\ last' = Outcome(u, "select_product", Pressed(data), NoError, "ask_quantity")
         /\ e2e' = Track(u, IF product_id.ok
                               /\ PricedAt(products, product_id.val, 30000)
                              THEN 2 ELSE 0)

select_quantity(u, m) ==
  /\ Session(u).state = "FSMOrder:select_quantity"
  /\ MessageHandler(u, Session(u).state, m) = "select_quantity"
  /\ IF ~Has(m, "text")
       THEN /\ UNCHANGED sessions
            /\ last' = Outcome(u, "select_quantity", Sent(m), "AttributeError", NoReply)
       ELSE LET text == strip(m.text)
                qty == int(text)
            IN  IF ~is_positive_number(text) \/ ~isdigit(remove(text, "."))
                  THEN /\ UNCHANGED sessions
                       /\ last' = Outcome(u, "select_quantity", Sent(m), NoError,
                                          "bad_quantity")
                ELSE IF ~qty.ok
                  THEN /\ UNCHANGED sessions
                       /\ last' = Outcome(u, "select_quantity", Sent(m), "ValueError",
                                          NoReply)
                ELSE /\ Put(u, set_state(
                              update_data(Session(u), [quantity |-> qty.val]),
                              "FSMOrder:enter_city"))
                     /\ last' = Outcome(u, "select_quantity", Sent(m), NoError, "ask_city")
  /\ UNCHANGED <<Tables, Reviews, entered, cdek, now, censor, pending>>
  /\ e2e' = Track(u, IF m = TextMessage(<<"2">>) THEN 3 ELSE 0)


(* The responses that can matter to one call of _get_token *)
TokenChoices(client, time) ==
  IF Has(client, "access_token") /\ client.token_expires_at > time
    THEN {[kind |-> "unused"]} ELSE TokenResponses

(* A courier call fails when the request raises or the answer carries an   *)
(* HTTP error status.                                                      *)
CallFailed(tokenResp, resp) ==
  \/ tokenResp.kind \in {"http_error", "network_error"}
  \/ resp.kind = "network_error"
  \/ resp.kind = "status" /\ resp.status_code # 200

Courier(failed) == IF failed THEN "failed" ELSE "answered"

CityOutcome(u, m, reply, failed) ==
  [Outcome(u, "enter_city", Sent(m), NoError, reply)
     EXCEPT !.courier = Courier(failed)]

(* What each courier call of the step did for its token: whether a token   *)
(* request was issued, and the token sent in the Authorization header      *)
Auth(tok) ==
  IF tok.raised THEN [requested |-> tok.requested]
  ELSE [requested |-> tok.requested, token |-> tok.token]

Called(outcome, toks) ==
  Merge(outcome, [calls |-> [i \in 1..Len(toks) |-> Auth(toks[i])]])

(* the list taken without the check *)
not_pvz_list_unchecked(pvz_list) == FALSE

(* if not pvz_list *)
not_pvz_list(pvz_list) == pvz_list = <<>>

(* No request follows a token request that failed *)
Answers(tokenResp, responses) ==
  IF tokenResp.kind \in {"http_error", "network_error"}
    THEN {[kind |-> "unsent"]} ELSE responses

enter_city(u, m) ==
  /\ Session(u).state = "FSMOrder:enter_city"
  /\ MessageHandler(u, Session(u).state, m) = "enter_city"
  /\ UNCHANGED <<Tables, Reviews, entered, now, censor, pending>>
  /\ IF ~Has(m, "text")
       THEN /\ UNCHANGED <<sessions, cdek>>
            /\ last' = Outcome(u, "enter_city", Sent(m), "AttributeError",
                               NoReply)
            /\ e2e' = Track(u, 0)
     ELSE IF strip(m.text) = <<>>
       THEN /\ UNCHANGED <<sessions, cdek>>
            /\ last' = Outcome(u, "enter_city", Sent(m), NoError, "empty_city")
            /\ e2e' = Track(u, 0)
     ELSE
       \E tokenResp1 \in TokenChoices(cdek, now) :
       \E cityResp \in Answers(tokenResp1, CityResponses(strip(m.text))) :
         LET city_name == strip(m.text)
             city_code == get_city_code_by_name(cdek, now, tokenResp1,
                                                cityResp)
             failed1 == CallFailed(tokenResp1, cityResp)
             tok1 == _get_token(cdek, now, tokenResp1)
         IN  IF city_code.raised
               THEN /\ UNCHANGED sessions
                    /\ cdek' = city_code.client
                    /\ last' = Called(CityOutcome(u, m, "cdek_error", failed1),
                                      <<tok1>>)
                    /\ e2e' = Track(u, 0)
             ELSE IF ~Has(city_code, "value")
               THEN /\ UNCHANGED sessions
                    /\ cdek' = city_code.client
                    /\ last' = Called(CityOutcome(u, m, "city_not_found",
                                                  failed1),
                                      <<tok1>>)
                    /\ e2e' = Track(u, 0)
             ELSE
               \E tokenResp2 \in TokenChoices(city_code.client, now) :
               \E pointResp \in Answers(tokenResp2,
                                        PointResponses(city_code.value)) :
                 LET pvz_list == get_pvz_by_city_code(city_code.client, now,
                                                      tokenResp2, pointResp)
                     failed2 == failed1 \/ CallFailed(tokenResp2, pointResp)
                     tok2 == _get_token(city_code.client, now, tokenResp2)
                 IN  /\ cdek' = pvz_list.client
                     /\ IF pvz_list.raised
                          THEN /\ UNCHANGED sessions
                               /\ last' = Called(CityOutcome(u, m, "cdek_error",
                                                             failed2),
                                                 <<tok1, tok2>>)
                               /\ e2e' = Track(u, 0)
                        ELSE IF not_pvz_list(pvz_list.value)
                          THEN /\ UNCHANGED sessions
                               /\ last' = Called(CityOutcome(u, m, "no_pvz",
                                                             failed2),
                                                 <<tok1, tok2>>)
                               /\ e2e' = Track(u, 0)
                        ELSE /\ Put(u, set_state(
                                      update_data(Session(u),
                                        [pvz_list |-> pvz_list.value,
                                         city |-> city_name]),
                                      "FSMOrder:select_pvz"))
                             /\ last' = Merge(
                                  Called(CityOutcome(u, m, "choose_pvz",
                                                     failed2),
                                         <<tok1, tok2>>),
                                  [markup |-> get_pvz_pagination_kb(
                                                pvz_list.value, 0)])
                             /\ e2e' = Track(u, 4)

paginate_pvz_list(u, data) ==
  /\ Session(u).state = "FSMOrder:select_pvz"
  /\ startswith(data, TokPvzPage)
  /\ CallbackHandler(u, Session(u).state, data) = "paginate_pvz_list"
  /\ LET page == int(SplitLast(data, "_"))
     IN  last' =
           IF ~page.ok
             THEN Outcome(u, "paginate_pvz_list", Pressed(data),
                          "ValueError", NoReply)
           ELSE IF ~Has(Session(u).data, "pvz_list")
                   \/ ~Has(Session(u).data, "city")
             THEN Outcome(u, "paginate_pvz_list", Pressed(data),
                          "KeyError", NoReply)
           ELSE Merge(Outcome(u, "paginate_pvz_list", Pressed(data),
                              NoError, "pvz_page"),
                      [markup |-> get_pvz_pagination_kb(
                                    Session(u).data.pvz_list, page.val)])
  /\ UNCHANGED <<sessions, Tables, Reviews, entered, cdek, now, censor, pending>>
  /\ e2e' = Track(u, 0)

(* next((p for p in pvz_list if str(p['code']) == pvz_code), pvz_list[0]) *)
FindPvz_or_first(pvz_list, pvz_code) ==
  IF SelectSeq(pvz_list, LAMBDA p : p.code = pvz_code) = <<>>
    THEN SubSeq(pvz_list, 1, 1)
    ELSE SelectSeq(pvz_list, LAMBDA p : p.code = pvz_code)

(* next((p for p in pvz_list if str(p['code']) == pvz_code), None) *)
FindPvz(pvz_list, pvz_code) ==
  SelectSeq(pvz_list, LAMBDA p : p.code = pvz_code)

select_pvz_handler(u, data) ==
  /\ Session(u).state = "FSMOrder:select_pvz"
  /\ startswith(data, TokPvz)
  /\ CallbackHandler(u, Session(u).state, data) = "select_pvz_handler"
  /\ UNCHANGED <<Tables, Reviews, entered, cdek, now, censor, pending>>
  /\ LET pvz_code == AfterPrefix(data, TokPvz)
     IN  IF ~Has(Session(u).data, "pvz_list")
           THEN /\ UNCHANGED sessions
                /\ last' = Outcome(u, "select_pvz_handler", Pressed(data), "KeyError", NoReply)
                /\ e2e' = Track(u, 0)
         ELSE IF FindPvz(Session(u).data.pvz_list, pvz_code) = <<>>
           THEN /\ UNCHANGED sessions
                /\ last' = Outcome(u, "select_pvz_handler", Pressed(data), NoError,
                                   "pvz_not_found")
                /\ e2e' = Track(u, 0)
         ELSE /\ Put(u, set_state(
                       update_data(Session(u),
                         [selected_pvz |->
                            Head(FindPvz(Session(u).data.pvz_list, pvz_code))]),
                       "FSMOrder:request_contact"))
              /\ last' = Outcome(u, "select_pvz_handler", Pressed(data), NoError, "ask_phone")
              /\ e2e' = Track(u, 5)

PhoneExample ==
  <<"+", "7", " ", "9", "9", "9", " ", "1", "2", "3", "-", "4", "5", "-",
    "6", "7">>

process_contact_text(u, m) ==
  /\ Session(u).state = "FSMOrder:request_contact"
  /\ MessageHandler(u, Session(u).state, m) = "process_contact_text"
  /\ IF ~Has(m, "text")
       THEN /\ UNCHANGED sessions
            /\ last' = Handled(u, "process_contact_text", m, "AttributeError", NoReply)
       ELSE
         LET text == strip(m.text)
             accepted == set_state(update_data(Session(u), [phone |-> text]),
                                   "FSMOrder:confirm")
             data == accepted.data
         IN  IF lower(text) \in CancelKeywords
               THEN /\ Put(u, clear(Session(u)))
                    /\ last' = Handled(u, "process_contact_text", m, NoError,
                                       "order_cancelled")
             ELSE IF ~is_valid_phone(text)
               THEN /\ UNCHANGED sessions
                    /\ last' = Handled(u, "process_contact_text", m, NoError,
                                       "bad_phone")
             ELSE IF ~Has(data, "product_id")
               THEN /\ Put(u, clear(accepted))
                    /\ last' = Handled(u, "process_contact_text", m, NoError,
                                       "stale_session")
             ELSE IF Matching(load_products(products), data.product_id) = <<>>
               THEN /\ Put(u, accepted)
                    /\ last' = Handled(u, "process_contact_text", m, "StopIteration", NoReply)
             ELSE IF ~Has(data, "selected_pvz") \/ ~Has(data, "quantity")
                     \/ ~Has(data, "city")
               THEN /\ Put(u, accepted)
                    /\ last' = Handled(u, "process_contact_text", m, "KeyError",
                                       NoReply)
             ELSE /\ Put(u, accepted)
                  /\ last' = Handled(u, "process_contact_text", m, NoError, "summary")
  /\ UNCHANGED <<Tables, Reviews, entered, cdek, now, censor, pending>>
  /\ e2e' = Track(u, IF m = TextMessage(PhoneExample) THEN 6 ELSE 0)

cancel_order(u, data) ==
  /\ Session(u).state \in FSMOrder
  /\ data = TokOrderCancel
  /\ CallbackHandler(u, Session(u).state, data) = "cancel_order"
  /\ Put(u, clear(Session(u)))
  /\ last' = Outcome(u, "cancel_order", Pressed(data), NoError, "order_cancelled")
  /\ UNCHANGED <<Tables, Reviews, entered, cdek, now, censor, pending>>
  /\ e2e' = Track(u, 0)

(* the total without the quantity *)
total_price_of_unit(price_per_unit, quantity) == price_per_unit

(* total_price = price_per_unit * quantity *)
total_price(price_per_unit, quantity) == price_per_unit * quantity

(* the notification left out *)
send_message_dropped(inbox) == inbox

(* bot.send_message(chat_id=ADMIN_ID, ...): one more message in the       *)
(* administrator's chat                                                    *)
send_message(inbox) == inbox + 1

(* delivered: whether Telegram accepts the message for the administrator *)
confirm_order(u, cb, delivered) ==
  /\ cb = TokOrderConfirm
  /\ CallbackHandler(u, Session(u).state, cb) = "confirm_order"
  /\ Len(orders) < MaxOrders
  /\ LET data == Session(u).data
         found == Matching(load_products(products), data.product_id)
         product == Head(found)
         quantity == data.quantity
         price_per_unit == product.price
         saved == save_order(orders, u, product.id, product.name, quantity,
                             price_per_unit,
                             total_price(price_per_unit, quantity))
     IN  IF ~Has(data, "selected_pvz") \/ ~Has(data, "product_id")
           THEN /\ UNCHANGED <<sessions, orders, adminInbox>>
                /\ last' = Outcome(u, "confirm_order", Pressed(cb), "KeyError", NoReply)
         ELSE IF found = <<>>
           THEN /\ Put(u, clear(Session(u)))
                /\ UNCHANGED <<orders, adminInbox>>
                /\ last' = Outcome(u, "confirm_order", Pressed(cb), NoError,
                                   "product_not_found")
         ELSE IF ~Has(data, "quantity")
           THEN /\ UNCHANGED <<sessions, orders, adminInbox>>
                /\ last' = Outcome(u, "confirm_order", Pressed(cb), "KeyError", NoReply)
         ELSE IF ~Has(data, "city")
           THEN /\ orders' = saved
                /\ UNCHANGED <<sessions, adminInbox>>
                /\ last' = Outcome(u, "confirm_order", Pressed(cb), "KeyError", NoReply)
         ELSE IF ~delivered
           THEN /\ orders' = saved
                /\ UNCHANGED <<sessions, adminInbox>>
                /\ last' = Outcome(u, "confirm_order", Pressed(cb), "TelegramAPIError", NoReply)
         ELSE /\ orders' = saved
              /\ adminInbox' = send_message(adminInbox)
              /\ Put(u, clear(Session(u)))
              /\ last' = Outcome(u, "confirm_order", Pressed(cb), NoError, "order_done")
  /\ UNCHANGED <<products, products_id_seq, Reviews, entered, cdek, now, censor, pending>>
  /\ e2e' = Track(u, IF delivered THEN 7 ELSE 0)

MaxTaps == 2

(* confirm_order as far as `await bot.send_message(...)`, for a Session     *)
(* that holds all the fields and a product that exists: the order has been *)
(* saved, state.clear() is still to come, and other updates are handled    *)
(* while Telegram is called (the dispatcher runs each update as a task of  *)
(* its own and is built without events isolation).                         *)
confirm_order_sending(u, cb) ==
  /\ cb = TokOrderConfirm
  /\ CallbackHandler(u, Session(u).state, cb) = "confirm_order"
  /\ Len(orders) < MaxTaps
  /\ LET data == Session(u).data
         found == Matching(load_products(products), data.product_id)
         product == Head(found)
         price_per_unit == product.price
     IN  /\ Has(data, "selected_pvz") /\ Has(data, "product_id")
         /\ found # <<>>
         /\ Has(data, "quantity") /\ Has(data, "city")
         /\ orders' = save_order(orders, u, product.id, product.name,
                                 data.quantity, price_per_unit,
                                 total_price(price_per_unit, data.quantity))
         /\ pending' = pending \cup {[user |-> u, handler |-> "confirm_order",
                                       order |-> Len(orders) + 1]}
         /\ last' = Outcome(u, "confirm_order", Pressed(cb), NoError, "sending")
  /\ UNCHANGED <<sessions, products, products_id_seq, adminInbox, Reviews, entered, cdek, now, censor>>
  /\ e2e' = Track(u, 0)

(* confirm_order from the return of bot.send_message on: the message is in *)
(* the administrator's chat, the user is answered and the Session cleared; *)
(* when Telegram refuses the message the exception leaves the handler.     *)
confirm_order_sent(p, delivered) ==
  /\ p \in pending
  /\ pending' = pending \ {p}
  /\ IF delivered
       THEN /\ adminInbox' = send_message(adminInbox)
            /\ Put(p.user, clear(Session(p.user)))
            /\ last' = Outcome(p.user, "confirm_order", Pressed(TokOrderConfirm), NoError, "order_done")
       ELSE /\ UNCHANGED <<sessions, adminInbox>>
            /\ last' = Outcome(p.user, "confirm_order", Pressed(TokOrderConfirm), "TelegramAPIError", NoReply)
  /\ UNCHANGED <<products, products_id_seq, orders, Reviews, entered, cdek, now, censor>>
  /\ e2e' = Track(p.user, 0)

----------------------------------------------------------------------------
(* handlers/admin.py *)

cm_download(u, m) ==
  /\ TextIs(m, BtnDownload)
  /\ MessageHandler(u, Session(u).state, m) = "cm_download"
  /\ UNCHANGED <<Tables, Reviews, entered, cdek, now, censor, pending>>
  /\ IF ~is_admin(u)
       THEN /\ UNCHANGED sessions
            /\ last' = Outcome(u, "cm_download", Sent(m), NoError, "admin_only")
       ELSE /\ Put(u, set_state(Session(u), "FSMAdmin:photo"))
            /\ last' = Outcome(u, "cm_download", Sent(m), NoError, "ask_photo")
  /\ e2e' = Track(u, 0)

load_photo(u, m) ==
  /\ Session(u).state = "FSMAdmin:photo"
  /\ MessageHandler(u, Session(u).state, m) = "load_photo"
  /\ UNCHANGED <<Tables, Reviews, cdek, now, censor, pending>>
  /\ Put(u, set_state(update_data(Session(u), [photo_file_id |-> m.photo]),
                      "FSMAdmin:name"))
  /\ entered' = Started(u, "add_product", [photo |-> m.photo])
  /\ last' = Handled(u, "load_photo", m, NoError, "ask_name")
  /\ e2e' = Track(u, 0)

load_name(u, m) ==
  /\ Session(u).state = "FSMAdmin:name"
  /\ MessageHandler(u, Session(u).state, m) = "load_name"
  /\ UNCHANGED <<Tables, Reviews, cdek, now, censor, pending>>
  /\ IF ~Has(m, "text")
       THEN /\ UNCHANGED <<sessions, entered>>
            /\ last' = Handled(u, "load_name", m, "AttributeError", NoReply)
       ELSE /\ Put(u, set_state(update_data(Session(u),
                                            [name |-> strip(m.text)]),
                                "FSMAdmin:weight"))
            /\ entered' = Gave(u, [name |-> m.text])
            /\ last' = Handled(u, "load_name", m, NoError, "ask_weight")
  /\ e2e' = Track(u, 0)

load_weight(u, m) ==
  /\ Session(u).state = "FSMAdmin:weight"
  /\ MessageHandler(u, Session(u).state, m) = "load_weight"
  /\ UNCHANGED <<Tables, Reviews, cdek, now, censor, pending>>
  /\ IF ~Has(m, "text") \/ ~is_positive_number(m.text)
       THEN /\ UNCHANGED <<sessions, entered>>
            /\ last' = Handled(u, "load_weight", m, NoError, "bad_weight")
     ELSE IF ~float(m.text).ok
       THEN /\ UNCHANGED <<sessions, entered>>
            /\ last' = Handled(u, "load_weight", m, "ValueError", NoReply)
     ELSE /\ Put(u, set_state(update_data(Session(u),
                                          [weight |-> float(m.text).val]),
                              "FSMAdmin:description"))
          /\ entered' = Gave(u, [weight |-> m.text])
          /\ last' = Handled(u, "load_weight", m, NoError, "ask_description")
  /\ e2e' = Track(u, 0)

load_description(u, m) ==
  /\ Session(u).state = "FSMAdmin:description"
  /\ MessageHandler(u, Session(u).state, m) = "load_description"
  /\ UNCHANGED <<Tables, Reviews, cdek, now, censor, pending>>
  /\ IF ~Has(m, "text")
       THEN /\ UNCHANGED <<sessions, entered>>
            /\ last' = Handled(u, "load_description", m, "AttributeError",
                               NoReply)
       ELSE /\ Put(u, set_state(update_data(Session(u),
                                            [description |-> strip(m.text)]),
                                "FSMAdmin:price"))
            /\ entered' = Gave(u, [description |-> m.text])
            /\ last' = Handled(u, "load_description", m, NoError, "ask_price")
  /\ e2e' = Track(u, 0)

(* The serial of the products table is followed up to MaxProducts *)
MaxProducts == 2

(* the product saved without its description *)
product_of_undescribed(data) == [data EXCEPT !.description = <<>>]

(* save_product(data): the Session's fields as they are *)
product_of(data) == data

(* send_product_notification belongs to the module notifications, which   *)
(* is not among the sources; it is taken from the specification's          *)
(* outbound notifications: the known users are told of the new product,    *)
(* nothing the forms read is changed, and the call completes when          *)
(* Telegram accepts the messages.                                          *)
send_product_notification(accepted) == accepted

(* price = round(float(message.text), 2): float keeps the first two        *)
(* decimals, which is exact for the prices entered with at most two.       *)
(* delivered tells whether Telegram accepts the confirmation photo and     *)
(* the notification.                                                       *)
load_price(u, m, delivered) ==
  /\ products_id_seq < MaxProducts
  /\ Session(u).state = "FSMAdmin:price"
  /\ MessageHandler(u, Session(u).state, m) = "load_price"
  /\ UNCHANGED <<orders, adminInbox, Reviews, cdek, now, censor, pending>>
  /\ IF ~Has(m, "text") \/ ~is_positive_number(m.text)
       THEN /\ UNCHANGED <<sessions, entered, products, products_id_seq>>
            /\ last' = Handled(u, "load_price", m, NoError, "bad_price")
     ELSE IF ~float(m.text).ok
       THEN /\ UNCHANGED <<sessions, entered, products, products_id_seq>>
            /\ last' = Handled(u, "load_price", m, "ValueError", NoReply)
     ELSE LET sess == update_data(Session(u), [price |-> float(m.text).val])
              data == sess.data
              saved == save_product(products, products_id_seq,
                                    product_of(data))
          IN  /\ entered' = Gave(u, [price |-> m.text])
              /\ IF ~Has(data, "name") \/ ~Has(data, "weight")
                    \/ ~Has(data, "description")
                   THEN /\ Put(u, sess)
                        /\ UNCHANGED <<products, products_id_seq>>
                        /\ last' = Handled(u, "load_price", m, "KeyError",
                                           NoReply)
                 ELSE /\ products' = saved.rows
                      /\ products_id_seq' = saved.seq
                      /\ IF ~Has(data, "photo_file_id")
                            \/ ~send_product_notification(delivered)
                           THEN /\ Put(u, sess)
                                /\ last' = Handled(u, "load_price", m,
                                                   "TelegramError", NoReply)
                           ELSE /\ Put(u, clear(sess))
                                /\ last' = Handled(u, "load_price", m,
                                                   NoError, "product_added")
  /\ e2e' = Track(u, 0)

process_edit_product(u, cb) ==
  /\ startswith(cb, TokEditProduct)
  /\ CallbackHandler(u, Session(u).state, cb) = "process_edit_product"
  /\ UNCHANGED <<Tables, Reviews, entered, cdek, now, censor, pending>>
  /\ LET product_id == int(SplitLast(cb, "_"))
         found == Matching(load_products(products), product_id.val)
     IN  IF ~product_id.ok
           THEN /\ UNCHANGED sessions
                /\ last' = Outcome(u, "process_edit_product", Pressed(cb), "ValueError", NoReply)
         ELSE IF found = <<>>
           THEN /\ UNCHANGED sessions
                /\ last' = Outcome(u, "process_edit_product", Pressed(cb), NoError,
                                   "product_not_found")
         ELSE /\ Put(u, update_data(Session(u),
                          [product_id |-> product_id.val,
                           current_product |-> Head(found)]))
              /\ last' = Outcome(u, "process_edit_product", Pressed(cb), NoError, "choose_field")
  /\ e2e' = Track(u, 0)

field_to_state ==
  {<<<<"p", "h", "o", "t", "o", "_", "f", "i", "l", "e", "_", "i", "d">>,
     "FSMAdminEdit:editing_photo">>,
   <<<<"n", "a", "m", "e">>, "FSMAdminEdit:editing_name">>,
   <<<<"w", "e", "i", "g", "h", "t">>, "FSMAdminEdit:editing_weight">>,
   <<<<"d", "e", "s", "c", "r", "i", "p", "t", "i", "o", "n">>,
     "FSMAdminEdit:editing_description">>,
   <<<<"p", "r", "i", "c", "e">>, "FSMAdminEdit:editing_price">>}

edit_field_selected(u, cb) ==
  /\ startswith(cb, TokEditField)
  /\ CallbackHandler(u, Session(u).state, cb) = "edit_field_selected"
  /\ UNCHANGED <<Tables, Reviews, entered, cdek, now, censor, pending>>
  /\ LET field == SplitLast(cb, "_")
         entry == {e \in field_to_state : e[1] = field}
     IN  IF entry = {}
           THEN /\ UNCHANGED sessions
                /\ last' = Outcome(u, "edit_field_selected", Pressed(cb), NoError,
                                   "invalid_field")
           ELSE /\ Put(u, set_state(Session(u),
                                    (CHOOSE e \in entry : TRUE)[2]))
                /\ last' = Outcome(u, "edit_field_selected", Pressed(cb), NoError, "ask_value")
  /\ e2e' = Track(u, 0)

(* _return_to_edit_menu: the session after it, and what it answers; it   *)
(* never calls set_state, so the Session stays in the state of the field   *)
(* just edited.                                                            *)
_return_to_edit_menu(sess, rows) ==
  IF ~Has(sess.data, "product_id") \/ sess.data.product_id = 0
    THEN [sess |-> clear(sess), reply |-> "stale_session"]
  ELSE IF Matching(load_products(rows), sess.data.product_id) = <<>>
    THEN [sess |-> clear(sess), reply |-> "product_not_found"]
  ELSE [sess |-> sess, reply |-> "edit_menu"]

edit_name(u, m) ==
  /\ Session(u).state = "FSMAdminEdit:editing_name"
  /\ MessageHandler(u, Session(u).state, m) = "edit_name"
  /\ UNCHANGED <<Tables, Reviews, entered, cdek, now, censor, pending>>
  /\ IF ~Has(m, "text")
       THEN /\ UNCHANGED sessions
            /\ last' = Handled(u, "edit_name", m, "AttributeError", NoReply)
       ELSE LET menu == _return_to_edit_menu(
                          update_data(Session(u), [new_name |-> strip(m.text)]),
                          products)
            IN  /\ Put(u, menu.sess)
                /\ last' = Handled(u, "edit_name", m, NoError, menu.reply)
  /\ e2e' = Track(u, 0)

edit_weight(u, m) ==
  /\ Session(u).state = "FSMAdminEdit:editing_weight"
  /\ MessageHandler(u, Session(u).state, m) = "edit_weight"
  /\ UNCHANGED <<Tables, Reviews, entered, cdek, now, censor, pending>>
  /\ IF ~Has(m, "text") \/ ~is_positive_number(m.text)
       THEN /\ UNCHANGED sessions
            /\ last' = Handled(u, "edit_weight", m, NoError, "bad_weight")
     ELSE IF ~float(m.text).ok
       THEN /\ UNCHANGED sessions
            /\ last' = Handled(u, "edit_weight", m, "ValueError", NoReply)
     ELSE LET menu == _return_to_edit_menu(
                        update_data(Session(u),
                                    [new_weight |-> float(m.text).val]),
                        products)
          IN  /\ Put(u, menu.sess)
              /\ last' = Handled(u, "edit_weight", m, NoError, menu.reply)
  /\ e2e' = Track(u, 0)

edit_description(u, m) ==
  /\ Session(u).state = "FSMAdminEdit:editing_description"
  /\ MessageHandler(u, Session(u).state, m) = "edit_description"
  /\ UNCHANGED <<Tables, Reviews, entered, cdek, now, censor, pending>>
  /\ IF ~Has(m, "text")
       THEN /\ UNCHANGED sessions
            /\ last' = Handled(u, "edit_description", m, "AttributeError",
                               NoReply)
       ELSE LET menu == _return_to_edit_menu(
                          update_data(Session(u),
                                      [new_description |-> strip(m.text)]),
                          products)
            IN  /\ Put(u, menu.sess)
                /\ last' = Handled(u, "edit_description", m, NoError,
                                   menu.reply)
  /\ e2e' = Track(u, 0)

edit_price(u, m) ==
  /\ Session(u).state = "FSMAdminEdit:editing_price"
  /\ MessageHandler(u, Session(u).state, m) = "edit_price"
  /\ UNCHANGED <<Tables, Reviews, entered, cdek, now, censor, pending>>
  /\ IF ~Has(m, "text") \/ ~is_positive_number(m.text)
       THEN /\ UNCHANGED sessions
            /\ last' = Handled(u, "edit_price", m, NoError, "bad_price")
     ELSE IF ~float(m.text).ok
       THEN /\ UNCHANGED sessions
            /\ last' = Handled(u, "edit_price", m, "ValueError", NoReply)
     ELSE LET menu == _return_to_edit_menu(
                        update_data(Session(u),
                                    [new_price |-> float(m.text).val]),
                        products)
          IN  /\ Put(u, menu.sess)
              /\ last' = Handled(u, "edit_price", m, NoError, menu.reply)
  /\ e2e' = Track(u, 0)

NewKey(field) ==
  CASE field = "photo_file_id" -> "new_photo_file_id"
    [] field = "name" -> "new_name"
    [] field = "weight" -> "new_weight"
    [] field = "description" -> "new_description"
    [] field = "price" -> "new_price"

(* the product's own value written whatever was entered *)
written_value_kept(data, current_product, field) == current_product[field]

(* new_value if new_value is not None, else current_product[field] *)
written_value(data, current_product, field) ==
  IF Has(data, NewKey(field)) THEN data[NewKey(field)]
  ELSE current_product[field]

finish_editing(u, cb) ==
  /\ cb = TokEditDone
  /\ CallbackHandler(u, Session(u).state, cb) = "finish_editing"
  /\ UNCHANGED <<orders, adminInbox, Reviews, entered, cdek, now, censor, pending>>
  /\ LET data == Session(u).data
         found == Matching(load_products(products), data.product_id)
         current_product == Head(found)
         fields == {PRODUCT_LIST[i] : i \in 1..Len(PRODUCT_LIST)}
         updated_data ==
           Merge([id |-> data.product_id],
                 [f \in fields |-> written_value(data, current_product, f)])
         updated == \E f \in fields : Has(data, NewKey(f))
         saved == save_product(products, products_id_seq, updated_data)
     IN  IF ~Has(data, "product_id") \/ data.product_id = 0
           THEN /\ Put(u, clear(Session(u)))
                /\ UNCHANGED <<products, products_id_seq>>
                /\ last' = Outcome(u, "finish_editing", Pressed(cb), NoError, "stale_session")
         ELSE IF found = <<>>
           THEN /\ Put(u, clear(Session(u)))
                /\ UNCHANGED <<products, products_id_seq>>
                /\ last' = Outcome(u, "finish_editing", Pressed(cb), NoError,
                                   "product_not_found")
         ELSE IF updated
           THEN /\ products' = saved.rows
                /\ products_id_seq' = saved.seq
                /\ Put(u, clear(Session(u)))
                /\ last' = Outcome(u, "finish_editing", Pressed(cb), NoError, "product_updated")
         ELSE /\ Put(u, clear(Session(u)))
              /\ UNCHANGED <<products, products_id_seq>>
              /\ last' = Outcome(u, "finish_editing", Pressed(cb), NoError, "no_changes")
  /\ e2e' = Track(u, 0)

handle_delete_product(u, cb) ==
  /\ startswith(cb, TokDeleteProduct)
  /\ CallbackHandler(u, Session(u).state, cb) = "handle_delete_product"
  /\ UNCHANGED <<sessions, products_id_seq, adminInbox, reviews_id_seq, entered, cdek, now, censor, pending>>
  /\ LET product_id == int(SplitLast(cb, "_"))
         deleted == delete_product(products, orders, product_id.val)
     IN  IF ~product_id.ok
           THEN /\ UNCHANGED <<products, orders, reviews>>
                /\ last' = Outcome(u, "handle_delete_product", Pressed(cb), NoError, "bad_id")
           ELSE /\ products' = deleted.products
                /\ orders' = deleted.orders
                /\ reviews' = delete_reviews_cascade(reviews, product_id.val)
                /\ last' = Outcome(u, "handle_delete_product", Pressed(cb), NoError,
                                   "product_deleted")
  /\ e2e' = Track(u, 0)

----------------------------------------------------------------------------
(* handlers/client.py, handlers/suggestions.py: the triggers of the forms *)

start_review(u, cb) ==
  /\ cb = TokReviewStart
  /\ CallbackHandler(u, Session(u).state, cb) = "start_review"
  /\ UNCHANGED <<Tables, Reviews, entered, cdek, now, censor, pending>>
  /\ IF load_products(products) = <<>>
       THEN /\ UNCHANGED sessions
            /\ last' = Outcome(u, "start_review", Pressed(cb), NoError, "no_products")
       ELSE /\ Put(u, set_state(Session(u), "FSMReview:select_product"))
            /\ last' = Outcome(u, "start_review", Pressed(cb), NoError, "choose_product")
  /\ e2e' = Track(u, 0)

select_review_product(u, cb) ==
  /\ startswith(cb, TokReviewProduct)
  /\ CallbackHandler(u, Session(u).state, cb) = "select_review_product"
  /\ UNCHANGED <<Tables, Reviews, cdek, now, censor, pending>>
  /\ LET product_id == int(SplitLast(cb, "_"))
     IN  IF Session(u).state # "FSMReview:select_product"
           THEN /\ UNCHANGED <<sessions, entered>>
                /\ last' = Outcome(u, "select_review_product", Pressed(cb),
                                   NoError, NoReply)
         ELSE IF ~product_id.ok
           THEN /\ UNCHANGED <<sessions, entered>>
                /\ last' = Outcome(u, "select_review_product", Pressed(cb),
                                   NoError, "bad_choice")
         ELSE /\ Put(u, set_state(update_data(Session(u),
                                    [product_id |-> product_id.val]),
                                  "FSMReview:text"))
              /\ entered' = Started(u, "review",
                                    [product_id |-> product_id.val])
              /\ last' = Outcome(u, "select_review_product", Pressed(cb),
                                 NoError, "ask_text")
  /\ e2e' = Track(u, 0)

(* update_data(key=value) where the value may be None: None is an absent   *)
(* field                                                                   *)
Optional(m, key, field) ==
  IF Has(m, key) THEN [k \in {field} |-> m[key]] ELSE EmptyData

update_optional(sess, m, key, field) ==
  [sess EXCEPT !.data = Merge(Without(@, field), Optional(m, key, field))]

load_review_text(u, m) ==
  /\ Session(u).state = "FSMReview:text"
  /\ MessageHandler(u, Session(u).state, m) = "load_review_text"
  /\ UNCHANGED <<Tables, Reviews, cdek, now, censor, pending>>
  /\ Put(u, set_state(update_optional(Session(u), m, "text", "text"),
                      "FSMReview:photo"))
  /\ entered' = Gave(u, Optional(m, "text", "text"))
  /\ last' = Handled(u, "load_review_text", m, NoError, "ask_photo")
  /\ e2e' = Track(u, 0)

(* utils/suggestion_review_helpers.py *)
handle_photo_step(sess, m, next_state) ==
  set_state(update_optional(sess, m, "photo", "photo"), next_state)

handle_skip_photo(sess, next_state) ==
  set_state([sess EXCEPT !.data = Without(@, "photo")], next_state)

load_review_photo(u, m) ==
  /\ Session(u).state = "FSMReview:photo"
  /\ MessageHandler(u, Session(u).state, m) = "load_review_photo"
  /\ UNCHANGED <<Tables, Reviews, cdek, now, censor, pending>>
  /\ Put(u, handle_photo_step(Session(u), m, "FSMReview:contact"))
  /\ entered' = Gave(u, Optional(m, "photo", "photo"))
  /\ last' = Handled(u, "load_review_photo", m, NoError,
                     IF Has(m, "photo") THEN "photo_taken"
                     ELSE "photo_skipped")
  /\ e2e' = Track(u, 0)

skip_review_photo(u, cb) ==
  /\ cb = TokSkipPhoto
  /\ Session(u).state = "FSMReview:photo"
  /\ CallbackHandler(u, Session(u).state, cb) = "skip_review_photo"
  /\ UNCHANGED <<Tables, Reviews, entered, cdek, now, censor, pending>>
  /\ Put(u, handle_skip_photo(Session(u), "FSMReview:contact"))
  /\ last' = Outcome(u, "skip_review_photo", Pressed(cb), NoError,
                     "photo_skipped")
  /\ e2e' = Track(u, 0)

NotGiven == <<"N", "e", " ", "u", "k", "a", "z", "a", "n">>

(* contact = 'Ne ukazan' *)
skipped_contact(contact) == [contact |-> NotGiven]

(* handle_contact_step: the contact that is saved and shown to the         *)
(* administrator                                                           *)
contact_of(text, contact_required) ==
  IF ~contact_required /\ lower(strip(text)) \in CONTACT_SKIP_VALUES
    THEN skipped_contact(strip(text))
    ELSE [contact |-> strip(text)]

(* The serial of the reviews table is followed up to MaxReviews *)
MaxReviews == 1

(* save_review_to_db(data, contact, user_id): the values of the insert;   *)
(* data['text'] and data['product_id'] raise KeyError when missing         *)
review_fields(data, contact, user_id) ==
  Merge(Merge([user_id |-> user_id, product_id |-> data.product_id],
              contact),
        Merge(IF Has(data, "text") THEN [text |-> data.text] ELSE EmptyData,
              IF Has(data, "photo") THEN [photo_file_id |-> data.photo]
              ELSE EmptyData))

(* handle_contact_step for a review: delivered tells whether Telegram      *)
(* accepts the message to the administrator                                *)
load_review_contact(u, m, delivered) ==
  /\ reviews_id_seq < MaxReviews
  /\ Session(u).state = "FSMReview:contact"
  /\ MessageHandler(u, Session(u).state, m) = "load_review_contact"
  /\ UNCHANGED <<products, products_id_seq, orders, cdek, now, censor, pending>>
  /\ IF ~Has(m, "text")
       THEN /\ UNCHANGED <<sessions, Reviews, adminInbox, entered>>
            /\ last' = Handled(u, "load_review_contact", m, "AttributeError",
                               NoReply)
     ELSE LET data == Session(u).data
              saved == add_review(reviews, reviews_id_seq, products,
                         review_fields(data, contact_of(m.text, FALSE), u))
          IN  /\ entered' = Gave(u, [contact |-> m.text])
              /\ IF ~Has(data, "product_id") \/ saved.raised
                   THEN /\ UNCHANGED <<sessions, reviews, adminInbox>>
                        /\ reviews_id_seq' = IF Has(data, "product_id")
                                               THEN saved.seq
                                               ELSE reviews_id_seq
                        /\ last' = Handled(u, "load_review_contact", m,
                                           NoError, "save_error")
                 ELSE /\ reviews' = saved.rows
                      /\ reviews_id_seq' = saved.seq
                      /\ IF ~delivered
                           THEN /\ UNCHANGED <<sessions, adminInbox>>
                                /\ last' = Handled(u, "load_review_contact",
                                                   m, "TelegramError",
                                                   NoReply)
                           ELSE /\ adminInbox' = send_message(adminInbox)
                                /\ Put(u, clear(Session(u)))
                                /\ last' = Handled(u, "load_review_contact",
                                                   m, NoError, "thanks")
  /\ e2e' = Track(u, 0)

(* the check of the author left out *)
is_author_unchecked(review, u) == TRUE

(* review['user_id'] == callback.from_user.id *)
is_author(review, u) == review.user_id = u

start_edit_review(u, cb) ==
  /\ startswith(cb, TokEditReview)
  /\ CallbackHandler(u, Session(u).state, cb) = "start_edit_review"
  /\ UNCHANGED <<Tables, Reviews, entered, cdek, now, censor, pending>>
  /\ LET review_id == int(SplitLast(cb, "_"))
         review == get_review_by_id(reviews, review_id.val)
     IN  IF ~review_id.ok
           THEN /\ UNCHANGED sessions
                /\ last' = Outcome(u, "start_edit_review", Pressed(cb),
                                   NoError, "bad_format")
         ELSE IF review = <<>>
           THEN /\ UNCHANGED sessions
                /\ last' = Outcome(u, "start_edit_review", Pressed(cb),
                                   NoError, "review_not_found")
         ELSE IF ~is_author(Head(review), u)
           THEN /\ UNCHANGED sessions
                /\ last' = Outcome(u, "start_edit_review", Pressed(cb),
                                   NoError, "not_yours")
         ELSE /\ Put(u, update_data(
                          set_state(Session(u), "FSMReviewEdit:editing_text"),
                          [review_id |-> review_id.val]))
              /\ last' = Outcome(u, "start_edit_review", Pressed(cb),
                                 NoError, "ask_new_text")
  /\ e2e' = Track(u, 0)

process_edit_text(u, m) ==
  /\ Session(u).state = "FSMReviewEdit:editing_text"
  /\ MessageHandler(u, Session(u).state, m) = "process_edit_text"
  /\ UNCHANGED <<Tables, Reviews, entered, cdek, now, censor, pending>>
  /\ IF ~Has(m, "text")
       THEN /\ UNCHANGED sessions
            /\ last' = Handled(u, "process_edit_text", m, "AttributeError",
                               NoReply)
     ELSE IF strip(m.text) = <<>>
       THEN /\ UNCHANGED sessions
            /\ last' = Handled(u, "process_edit_text", m, NoError,
                               "empty_text")
     ELSE /\ Put(u, set_state(update_data(Session(u),
                                          [new_text |-> strip(m.text)]),
                              "FSMReviewEdit:editing_contact"))
          /\ last' = Handled(u, "process_edit_text", m, NoError,
                             "ask_contact")
  /\ e2e' = Track(u, 0)

SkipWords ==
  {<<"P", "r", "o", "p", "u", "s", "t", "i", "t">>, <<"/", "s", "k", "i", "p">>}

(* _apply_review_edit: the reviews and the Session after it, the answer,   *)
(* and the exception when the Session lacks review_id or new_text          *)
_apply_review_edit(sess, reviewRows, contact) ==
  IF ~Has(sess.data, "review_id") \/ ~Has(sess.data, "new_text")
    THEN [reviews |-> reviewRows, sess |-> sess, error |-> "KeyError",
          reply |-> NoReply]
    ELSE [reviews |-> update_review(reviewRows, sess.data.review_id,
                                    sess.data.new_text, contact),
          sess |-> clear(sess), error |-> NoError,
          reply |-> IF get_review_by_id(reviewRows, sess.data.review_id)
                       = <<>>
                      THEN "review_not_updated" ELSE "review_updated"]

process_edit_contact(u, m) ==
  /\ Session(u).state = "FSMReviewEdit:editing_contact"
  /\ MessageHandler(u, Session(u).state, m) = "process_edit_contact"
  /\ UNCHANGED <<Tables, reviews_id_seq, entered, cdek, now, censor, pending>>
  /\ IF ~Has(m, "text")
       THEN /\ UNCHANGED <<sessions, reviews>>
            /\ last' = Handled(u, "process_edit_contact", m,
                               "AttributeError", NoReply)
       ELSE LET applied ==
                  _apply_review_edit(Session(u), reviews,
                    IF strip(m.text) \in SkipWords THEN EmptyData
                    ELSE [contact |-> strip(m.text)])
            IN  /\ Put(u, applied.sess)
                /\ reviews' = applied.reviews
                /\ last' = Handled(u, "process_edit_contact", m,
                                   applied.error, applied.reply)
  /\ e2e' = Track(u, 0)

skip_edit_contact(u, cb) ==
  /\ cb = TokSkipPhoto
  /\ Session(u).state = "FSMReviewEdit:editing_contact"
  /\ CallbackHandler(u, Session(u).state, cb) = "skip_edit_contact"
  /\ UNCHANGED <<Tables, reviews_id_seq, entered, cdek, now, censor, pending>>
  /\ LET applied == _apply_review_edit(Session(u), reviews, EmptyData)
     IN  /\ Put(u, applied.sess)
         /\ reviews' = applied.reviews
         /\ last' = Outcome(u, "skip_edit_contact", Pressed(cb),
                            applied.error, applied.reply)
  /\ e2e' = Track(u, 0)

load_suggestions_text(u, m) ==
  /\ Session(u).state = "FSMSuggestions:text"
  /\ MessageHandler(u, Session(u).state, m) = "load_suggestions_text"
  /\ UNCHANGED <<Tables, Reviews, cdek, now, censor, pending>>
  /\ Put(u, set_state(update_optional(Session(u), m, "text", "text"),
                      "FSMSuggestions:photo"))
  /\ entered' = Started(u, "suggestion", Optional(m, "text", "text"))
  /\ last' = Handled(u, "load_suggestions_text", m, NoError, "ask_photo")
  /\ e2e' = Track(u, 0)

load_suggestions_photo(u, m) ==
  /\ Session(u).state = "FSMSuggestions:photo"
  /\ MessageHandler(u, Session(u).state, m) = "load_suggestions_photo"
  /\ UNCHANGED <<Tables, Reviews, cdek, now, censor, pending>>
  /\ Put(u, handle_photo_step(Session(u), m, "FSMSuggestions:contact"))
  /\ entered' = Gave(u, Optional(m, "photo", "photo"))
  /\ last' = Handled(u, "load_suggestions_photo", m, NoError,
                     IF Has(m, "photo") THEN "photo_taken"
                     ELSE "photo_skipped")
  /\ e2e' = Track(u, 0)

skip_suggestions_photo(u, cb) ==
  /\ cb = TokSkipPhoto
  /\ Session(u).state = "FSMSuggestions:photo"
  /\ CallbackHandler(u, Session(u).state, cb) = "skip_suggestions_photo"
  /\ UNCHANGED <<Tables, Reviews, entered, cdek, now, censor, pending>>
  /\ Put(u, handle_skip_photo(Session(u), "FSMSuggestions:contact"))
  /\ last' = Outcome(u, "skip_suggestions_photo", Pressed(cb), NoError,
                     "photo_skipped")
  /\ e2e' = Track(u, 0)

(* The administrator's inbox is followed up to MaxNotices messages *)
MaxNotices == 2

(* the caption without the contact *)
notice_of_anonymous(data, contact) ==
  Merge(IF Has(data, "text") THEN [text |-> data.text] ELSE EmptyData,
        IF Has(data, "photo") THEN [photo |-> data.photo] ELSE EmptyData)

(* handle_contact_step: what the message to the administrator carries,    *)
(* send_photo with the caption or send_message with the same text          *)
notice_of(data, contact) ==
  Merge(contact,
        Merge(IF Has(data, "text") THEN [text |-> data.text] ELSE EmptyData,
              IF Has(data, "photo") THEN [photo |-> data.photo]
              ELSE EmptyData))

(* handle_contact_step for a suggestion: the contact must be a phone       *)
load_suggestions_contact(u, m, delivered) ==
  /\ adminInbox < MaxNotices
  /\ Session(u).state = "FSMSuggestions:contact"
  /\ MessageHandler(u, Session(u).state, m) = "load_suggestions_contact"
  /\ UNCHANGED <<products, products_id_seq, orders, Reviews, entered, cdek, now, censor, pending>>
  /\ IF ~Has(m, "text")
       THEN /\ UNCHANGED <<sessions, adminInbox>>
            /\ last' = Handled(u, "load_suggestions_contact", m,
                               "AttributeError", NoReply)
     ELSE IF ~is_valid_phone(strip(m.text))
       THEN /\ UNCHANGED <<sessions, adminInbox>>
            /\ last' = Handled(u, "load_suggestions_contact", m, NoError,
                               "bad_phone")
     ELSE IF ~delivered
       THEN /\ UNCHANGED <<sessions, adminInbox>>
            /\ last' = Handled(u, "load_suggestions_contact", m,
                               "TelegramError", NoReply)
     ELSE /\ adminInbox' = send_message(adminInbox)
          /\ Put(u, clear(Session(u)))
          /\ last' = Merge(Handled(u, "load_suggestions_contact", m, NoError,
                                   "thanks"),
                           [notice |-> notice_of(Session(u).data,
                                                 contact_of(m.text, TRUE))])
  /\ e2e' = Track(u, 0)

start_suggestions(u, cb) ==
  /\ cb = TokSuggestionsStart
  /\ CallbackHandler(u, Session(u).state, cb) = "start_suggestions"
  /\ UNCHANGED <<Tables, Reviews, entered, cdek, now, censor, pending>>
  /\ Put(u, set_state(Session(u), "FSMSuggestions:text"))
  /\ last' = Outcome(u, "start_suggestions", Pressed(cb), NoError, "ask_text")
  /\ e2e' = Track(u, 0)

----------------------------------------------------------------------------
(* handlers/common.py *)

(* cenz.json as get_censored_words returns it *)
CensoredWords == {<<"m", "a", "t">>}

(* What open(CENZ_FILE, encoding='utf-8') and json.load can meet: a list   *)
(* of words, no file, text that is not JSON, JSON that is not a list of    *)
(* strings, bytes that are not UTF-8                                       *)
SourceKinds == {"words", "missing", "invalid_json", "not_strings", "not_utf8"}

(* The filter after a first use that loaded the words *)
WordsLoaded == [source |-> "words", reads |-> 1, cache |-> CensoredWords]

(* The reads of cenz.json are followed up to MaxReads *)
MaxReads == 3

(* only FileNotFoundError and json.JSONDecodeError are caught *)
load_error(source) ==
  CASE source = "not_strings" -> "AttributeError"
    [] source = "not_utf8" -> "UnicodeDecodeError"
    [] OTHER -> NoError

(* get_censored_words: the function's _cache attribute, set by the first   *)
(* call that does not raise                                                *)
get_censored_words(c) ==
  IF Has(c, "cache")
    THEN [error |-> NoError, words |-> c.cache, censor |-> c]
  ELSE LET read == [c EXCEPT !.reads = @ + 1]
       IN  IF load_error(c.source) # NoError
             THEN [error |-> load_error(c.source), censor |-> read]
           ELSE LET words == IF c.source = "words" THEN CensoredWords ELSE {}
                IN  [error |-> NoError, words |-> words,
                     censor |-> Merge(read, [cache |-> words])]

(* string.punctuation, less the quote, backslash and backtick *)
Punctuation ==
  {"!", "#", "$", "%", "&", "'", "(", ")", "*", "+", ",", "-", ".", "/", ":",
   ";", "<", "=", ">", "?", "@", "[", "]", "^", "_", "{", "|", "}", "~"}

(* str.split(): the maximal runs of non-blank characters *)
RECURSIVE split(_)
split(t) ==
  LET s == lstrip(t)
      blanks == {i \in 1..Len(s) : s[i] \in SpaceChars}
      end == IF blanks = {} THEN Len(s) + 1
             ELSE CHOOSE i \in blanks : \A j \in blanks : i <= j
  IN  IF s = <<>> THEN <<>>
      ELSE <<SubSeq(s, 1, end - 1)>> \o split(SubSeq(s, end, Len(s)))

contains_censorship(censored, text) ==
  LET parts == split(text)
      clean(w) == SelectSeq(lower(w), LAMBDA c : c \notin Punctuation)
      words == {clean(parts[i]) : i \in 1..Len(parts)} \ {<<>>}
  IN  censored # {} /\ words \cap censored # {}

Hello == <<"p", "r", "i", "v", "e", "t">>
BtnAbout == <<"i", " ", "C", "h", "t", "o", " ", "u", "m", "e", "e", "t", " ", "b", "o", "t">>

echo_handler(u, m) ==
  /\ MessageHandler(u, Session(u).state, m) = "echo_handler"
  /\ Has(censor, "cache") \/ censor.reads < MaxReads
  /\ UNCHANGED <<sessions, Tables, Reviews, entered, cdek, now, pending>>
  /\ IF ~Has(m, "text")
       THEN /\ UNCHANGED censor
            /\ last' = Outcome(u, "echo_handler", Sent(m), NoError, NoReply)
     ELSE LET censored == get_censored_words(censor)
          IN  /\ censor' = censored.censor
              /\ last' = IF censored.error # NoError
                           THEN Outcome(u, "echo_handler", Sent(m),
                                        censored.error, NoReply)
                         ELSE Outcome(u, "echo_handler", Sent(m), NoError,
                           IF contains_censorship(censored.words, m.text)
                             THEN "censored"
                           ELSE IF lower(strip(m.text)) = Hello THEN "hello"
                           ELSE IF strip(m.text) = BtnAbout THEN "about"
                           ELSE "dont_understand")
  /\ e2e' = Track(u, 0)

----------------------------------------------------------------------------
(* Events: the customer sends the order form's inputs and the triggers of  *)
(* the other forms, the administrator edits and deletes the product.       *)

CustomerTexts ==
  {BtnStartOrder, BtnDownload, <<"2">>, <<"2", ".", "5">>, <<"2", ".">>,
   <<"0">>, <<"-", "5">>, <<"3", ",", "5">>, <<"a", "b", "c">>, <<" ">>,
   Moskva, Omsk, PhoneExample, KwCancel, <<"N", "a", "z", "a", "d">>}

AdminTexts == {<<"2", "5", "0">>, <<"a", "b", "c">>}

Texts(u) == IF is_admin(u) THEN AdminTexts ELSE CustomerTexts

CustomerTokens ==
  {TokOrderProd \o str(1), TokPvzPage \o str(1), TokPvz \o <<"M", "1">>,
   TokPvz \o <<"X", "9">>, TokOrderCancel, TokOrderConfirm,
   TokSuggestionsStart, TokReviewStart}

AdminTokens ==
  {TokEditProduct \o str(1), TokEditField \o <<"p", "r", "i", "c", "e">>,
   TokEditDone, TokDeleteProduct \o str(1)}

Tokens(u) == IF is_admin(u) THEN AdminTokens ELSE CustomerTokens

InitialProducts ==
  <<[id |-> 1, name |-> <<"P", "u", "e", "r">>, weight |-> 50000,
     description |-> <<"t", "e", "a">>, price |-> 30000,
     photo_file_id |-> "file1"]>>

Init ==
  /\ sessions = [u \in Users |-> [state |-> NoState, data |-> EmptyData]]
  /\ products = InitialProducts
  /\ products_id_seq = Len(InitialProducts)
  /\ orders = <<>>
  /\ adminInbox = 0
  /\ cdek = [token_expires_at |-> 0]
  /\ now = 0
  /\ last = [user |-> 0, handler |-> "start", from |-> NoState,
             input |-> [kind |-> "none"], error |-> NoError,
             reply |-> NoReply, courier |-> "not_called"]
  /\ e2e = E2EOff
  /\ reviews = <<>>
  /\ reviews_id_seq = 0
  /\ censor = WordsLoaded
  /\ pending = {}
  /\ entered = [u \in Users |-> NoForm]

Next ==
  \E u \in Users :
    \/ \E text \in Texts(u) :
         \/ start_order(u, TextMessage(text))
         \/ select_quantity(u, TextMessage(text))
         \/ enter_city(u, TextMessage(text))
         \/ process_contact_text(u, TextMessage(text))
         \/ cm_download(u, TextMessage(text))
         \/ edit_price(u, TextMessage(text))
         \/ echo_handler(u, TextMessage(text))
    \/ \E cb \in Tokens(u) :
         \/ select_product(u, cb)
         \/ paginate_pvz_list(u, cb)
         \/ select_pvz_handler(u, cb)
         \/ cancel_order(u, cb)
         \/ \E delivered \in BOOLEAN : confirm_order(u, cb, delivered)
         \/ process_edit_product(u, cb)
         \/ edit_field_selected(u, cb)
         \/ finish_editing(u, cb)
         \/ handle_delete_product(u, cb)
         \/ start_review(u, cb)
         \/ start_suggestions(u, cb)

Spec == Init /\ [][Next]_vars

----------------------------------------------------------------------------
(* Properties of the order form.  In an action formula the step is the     *)
(* handling of the event recorded in last': its sender is last'.user and   *)
(* the unprimed variables are the state the handler found.                 *)

Idle == [state |-> NoState, data |-> EmptyData]

CancelInput(input) ==
  \/ input.kind = "text" /\ input.class = "cancel_keyword"
  \/ input.kind = "callback" /\ input.data = TokOrderCancel

(* C1: an Order is persisted only by an order_confirm press handled while  *)
(* the sender's Session is in the confirm state of the Order form; an      *)
(* order_confirm press handled in any other Session state persists no      *)
(* Order and leaves the Session as it was.                                 *)
C1_OrderOnlyFromConfirmState ==
  [][/\ Len(orders') > Len(orders) =>
          /\ last'.handler = "confirm_order"
          /\ sessions[last'.user].state = "FSMOrder:confirm"
     /\ last'.user \in Users /\ last'.input.kind = "callback"
        /\ last'.input.data = TokOrderConfirm
        /\ sessions[last'.user].state # "FSMOrder:confirm" =>
          /\ orders' = orders
          /\ sessions' = sessions]_vars

(* The handlers that start a form, the answers they give when the form     *)
(* has started, and the fields the start itself stores.                    *)
FormStarted(outcome) ==
  \/ outcome.handler = "cm_download" /\ outcome.reply = "ask_photo"
  \/ outcome.handler = "start_order" /\ outcome.reply = "choose_product"
  \/ outcome.handler = "start_review" /\ outcome.reply = "choose_product"
  \/ outcome.handler = "start_suggestions" /\ outcome.reply = "ask_text"
  \/ outcome.handler = "process_edit_product"
       /\ outcome.reply = "choose_field"

FormOf(st) ==
  IF st \in FSMAdmin THEN "FSMAdmin"
  ELSE IF st \in FSMAdminEdit THEN "FSMAdminEdit"
  ELSE IF st \in FSMReview THEN "FSMReview"
  ELSE IF st \in FSMReviewEdit THEN "FSMReviewEdit"
  ELSE IF st \in FSMOrder THEN "FSMOrder"
  ELSE IF st \in FSMSuggestions THEN "FSMSuggestions"
  ELSE NoState

StartFields(outcome) ==
  IF outcome.handler = "process_edit_product"
    THEN {"product_id", "current_product"} ELSE {}

(* C2: immediately after the trigger that starts a form is handled while   *)
(* the sender's Session is in a state of another form, the Session holds   *)
(* no field collected by that earlier form: it holds only what the start   *)
(* itself stores.                                                          *)
C2_StartDiscardsEarlierForm ==
  [][/\ FormStarted(last')
     /\ sessions[last'.user].state # NoState
     /\ FormOf(sessions[last'.user].state)
          # FormOf(sessions'[last'.user].state)
     => DOMAIN sessions'[last'.user].data \subseteq StartFields(last')]_vars

(* C3: every persisted Order has total_price = quantity * price_per_unit   *)
(* with a positive quantity, and the Order an order_confirm press adds     *)
(* carries the price the product has in the catalog at that moment and     *)
(* the quantity the Session holds.                                         *)
C3_TotalPrice ==
  [][/\ \A i \in 1..Len(orders') :
          /\ orders'[i].quantity > 0
          /\ orders'[i].total_price
               = orders'[i].quantity * orders'[i].price_per_unit
     /\ Len(orders') > Len(orders) =>
          LET order == orders'[Len(orders')]
          IN  /\ Len(orders') = Len(orders) + 1
              /\ PricedAt(products, order.product_id, order.price_per_unit)
              /\ order.quantity = sessions[last'.user].data.quantity]_vars

(* An Order placed after the price was changed to 250: total 500 *)
C3_Witness ==
  /\ last.handler = "confirm_order" /\ last.reply = "order_done"
  /\ \E i \in 1..Len(orders) :
       /\ orders[i].price_per_unit = 25000
       /\ orders[i].quantity = 2
       /\ orders[i].total_price = 50000

OrderKept(before, after) ==
  /\ after.id = before.id
  /\ after.user_id = before.user_id
  /\ after.product_name = before.product_name
  /\ after.quantity = before.quantity
  /\ after.price_per_unit = before.price_per_unit
  /\ after.total_price = before.total_price
  /\ after.status = before.status

(* C4: a step that changes the catalog (an edit saved under the product's  *)
(* id, a deletion) removes no Order and changes no Order's product_name,   *)
(* quantity, price_per_unit or total_price.                                *)
C4_OrdersOutliveProducts ==
  [][products' # products =>
       /\ Len(orders') = Len(orders)
       /\ \A i \in 1..Len(orders) : OrderKept(orders[i], orders'[i])]_vars

(* The product of a persisted Order has been deleted *)
C4_Witness ==
  /\ last.handler = "handle_delete_product" /\ last.reply = "product_deleted"
  /\ products = <<>>
  /\ \E i \in 1..Len(orders) :
       /\ ~Has(orders[i], "product_id")
       /\ orders[i].total_price = 60000

E2EStates ==
  <<"FSMOrder:select_product", "FSMOrder:select_quantity",
    "FSMOrder:enter_city", "FSMOrder:select_pvz",
    "FSMOrder:request_contact", "FSMOrder:confirm">>

(* C5: along the scenario start-order, order_prod_<id> of a product priced *)
(* 300, "2", a city resolved with pickup points, pvz_<code> of a listed    *)
(* point, a valid phone, order_confirm (the notification being delivered), *)
(* begun idle, the Session is after the k-th event in the k-th state of    *)
(* select_product .. confirm, and after order_confirm the Session is       *)
(* cleared, the customer has exactly one more Order, of quantity 2, total  *)
(* 600 and status completed, and the administrator one more notification.  *)
C5_EndToEnd ==
  /\ e2e.step \in 1..6 => sessions[E2EUser].state = E2EStates[e2e.step]
  /\ e2e.step = 7 =>
       LET mine == OrdersOf(orders, E2EUser)
       IN  /\ sessions[E2EUser] = Idle
           /\ Len(mine) = e2e.base + 1
           /\ mine[Len(mine)].quantity = 2
           /\ mine[Len(mine)].total_price = 60000
           /\ mine[Len(mine)].status = "completed"
           /\ orders[Len(orders)] = mine[Len(mine)]
           /\ adminInbox = e2e.notes + 1

C5_Witness ==
  /\ e2e.step = 7
  /\ last.handler = "confirm_order" /\ last.from = "FSMOrder:confirm"

(* C6: an order_confirm press handled in the confirm state when the        *)
(* Session's product is no longer in the catalog persists no Order, sends  *)
(* no notification, tells the user and clears the Session.                 *)
C6_ProductGoneAtConfirm ==
  [][/\ last'.handler = "confirm_order"
     /\ sessions[last'.user].state = "FSMOrder:confirm"
     /\ Has(sessions[last'.user].data, "product_id")
     /\ Matching(products, sessions[last'.user].data.product_id) = <<>>
     => /\ orders' = orders
        /\ adminInbox' = adminInbox
        /\ last'.error = NoError
        /\ last'.reply = "product_not_found"
        /\ sessions'[last'.user] = Idle]_vars

C6_Witness ==
  /\ last.handler = "confirm_order" /\ last.from = "FSMOrder:confirm"
  /\ last.reply = "product_not_found"
  /\ products = <<>>
  /\ sessions[last.user] = Idle

(* C7: in select_quantity the handler never fails; a text that is not a    *)
(* positive integer is answered with the corrective prompt and leaves the  *)
(* Session as it was, and only a positive integer stores quantity and      *)
(* advances to enter_city.                                                 *)
C7_QuantityRejected ==
  [][last'.handler = "select_quantity" =>
       /\ last'.error = NoError
       /\ IF last'.input.class = "positive_integer"
            THEN /\ sessions'[last'.user].state = "FSMOrder:enter_city"
                 /\ Has(sessions'[last'.user].data, "quantity")
                 /\ sessions'[last'.user].data.quantity > 0
            ELSE /\ last'.reply = "bad_quantity"
                 /\ sessions' = sessions]_vars

(* C8: in every state of the Order form a cancellation input, keyword or   *)
(* order_cancel button, clears the Session and persists no Order.          *)
C8_CancelEverywhere ==
  [][/\ last'.user \in Users
     /\ sessions[last'.user].state \in FSMOrder
     /\ CancelInput(last'.input)
     => /\ sessions'[last'.user] = Idle
        /\ orders' = orders]_vars

(* C9: a step of enter_city keeps product_id and quantity and leaves the   *)
(* Session in enter_city or in select_pvz; after an empty name, an         *)
(* unresolved city or a city without pickup points the Session is what it  *)
(* was; the Session changes only by storing a non-empty pvz_list and the   *)
(* city and advancing to select_pvz.                                       *)
C9_CityRetry ==
  [][last'.handler = "enter_city" =>
       LET u == last'.user
           before == sessions[u]
           after == sessions'[u]
       IN  /\ Has(before.data, "product_id") /\ Has(before.data, "quantity")
           /\ Has(after.data, "product_id") /\ Has(after.data, "quantity")
           /\ after.data.product_id = before.data.product_id
           /\ after.data.quantity = before.data.quantity
           /\ last'.input.class = "blank" =>
                last'.reply = "empty_city" /\ last'.courier = "not_called"
           /\ last'.reply \in {"empty_city", "city_not_found", "no_pvz"} =>
                after = before
           /\ IF last'.reply = "choose_pvz"
                THEN /\ after.state = "FSMOrder:select_pvz"
                     /\ after.data.pvz_list # <<>>
                     /\ after.data.city # <<>>
                     /\ Without(Without(after.data, "pvz_list"), "city")
                          = Without(Without(before.data, "pvz_list"), "city")
                ELSE after = before]_vars

(* A city without pickup points: the form waits for another city *)
C9_Witness ==
  /\ last.handler = "enter_city" /\ last.reply = "no_pvz"
  /\ last.courier = "answered"
  /\ sessions[last.user].state = "FSMOrder:enter_city"
  /\ Has(sessions[last.user].data, "quantity")
  /\ ~Has(sessions[last.user].data, "pvz_list")

(* C10: when a courier call made by enter_city fails, by an HTTP error     *)
(* status or a network error, a failed token request included, the user    *)
(* gets the retry-later answer, the handler does not fail and the Session  *)
(* is what it was.                                                         *)
C10_CourierFailure ==
  [][last'.handler = "enter_city" /\ last'.courier = "failed" =>
       /\ last'.reply = "cdek_error"
       /\ last'.error = NoError
       /\ sessions' = sessions]_vars

----------------------------------------------------------------------------
(* Browsing the pickup points.  The courier answered the city of user 2    *)
(* with a list of 1..MaxPoints points and enter_city showed its first      *)
(* page; the user then presses page buttons, also ones of keyboards shown  *)
(* earlier, and picks a point.                                             *)

MaxPoints == 11
MaxPage == 3

PointsOf(n) ==
  [i \in 1..n |-> [code |-> str(i), name |-> <<"P">>, address |-> <<>>,
                   address_comment |-> <<>>]]

PageTokens == {TokPvzPage \o str(k) : k \in 0..MaxPage}

PointTokens == {TokPvz \o str(i) : i \in 1..MaxPoints}

InitPvz ==
  /\ \E n \in 1..MaxPoints :
       /\ sessions = [u \in Users |->
            IF is_admin(u) THEN [state |-> NoState, data |-> EmptyData]
            ELSE [state |-> "FSMOrder:select_pvz",
                  data |-> [product_id |-> 1, quantity |-> 2,
                            pvz_list |-> PointsOf(n), city |-> Moskva]]]
       /\ last = [user |-> 2, handler |-> "enter_city",
                  from |-> "FSMOrder:enter_city",
                  input |-> [kind |-> "text", class |-> "other"],
                  error |-> NoError, reply |-> "choose_pvz",
                  courier |-> "answered",
                  markup |-> get_pvz_pagination_kb(PointsOf(n), 0)]
  /\ products = InitialProducts
  /\ products_id_seq = Len(InitialProducts)
  /\ orders = <<>>
  /\ adminInbox = 0
  /\ cdek = [access_token |-> "t1", token_expires_at |-> 3600 - TokenMargin]
  /\ now = 0
  /\ e2e = E2EOff
  /\ reviews = <<>>
  /\ reviews_id_seq = 0
  /\ censor = WordsLoaded
  /\ pending = {}
  /\ entered = [u \in Users |-> NoForm]

NextPvz ==
  \E u \in Users :
    \E cb \in PageTokens \cup PointTokens :
      \/ paginate_pvz_list(u, cb)
      \/ select_pvz_handler(u, cb)

SpecPvz == InitPvz /\ [][NextPvz]_vars

(* The keyboards met by pressing the forward button from the given page on *)
RECURSIVE Forward(_, _)
Forward(pvz_list, page) ==
  LET kb == get_pvz_pagination_kb(pvz_list, page)
  IN  <<kb.buttons>>
      \o (IF \E i \in 1..Len(kb.nav) : kb.nav[i] = TokPvzPage \o str(page + 1)
            THEN Forward(pvz_list, page + 1) ELSE <<>>)

RECURSIVE Flatten(_)
Flatten(ss) == IF ss = <<>> THEN <<>> ELSE Head(ss) \o Flatten(Tail(ss))

Smaller(a, b) == IF a < b THEN a ELSE b

(* C11: for a list of n pickup points and a page p >= 0 the keyboard of    *)
(* paginate_pvz_list shows exactly the points with indices 5p up to        *)
(* min(5p+5, n) - 1, a prior button to page p-1 exactly when p > 0 and a   *)
(* next button to page p+1 exactly when 5(p+1) < n; following next from    *)
(* page 0 shows every point exactly once and never an empty page.          *)
C11_Pagination ==
  [][(last'.handler = "paginate_pvz_list" /\ last'.error = NoError)
     => LET pvz_list == sessions[last'.user].data.pvz_list
            n == Len(pvz_list)
            p == int(SplitLast(last'.input.data, "_")).val
            kb == last'.markup
            walk == Forward(pvz_list, 0)
        IN  /\ p >= 0
            /\ Len(kb.buttons) = (IF 5 * p < n
                                    THEN Smaller(5 * p + 5, n) - 5 * p ELSE 0)
            /\ \A i \in 1..Len(kb.buttons) :
                 kb.buttons[i] = TokPvz \o pvz_list[5 * p + i].code
            /\ (\E i \in 1..Len(kb.nav) : kb.nav[i] = TokPvzPage \o str(p - 1))
                 <=> p > 0
            /\ (\E i \in 1..Len(kb.nav) : kb.nav[i] = TokPvzPage \o str(p + 1))
                 <=> 5 * (p + 1) < n
            /\ \A i \in 1..Len(kb.nav) :
                 kb.nav[i] \in {TokPvzPage \o str(p - 1),
                                TokPvzPage \o str(p + 1)}
            /\ Flatten(walk) = [i \in 1..n |-> TokPvz \o pvz_list[i].code]
            /\ \A k \in 1..Len(walk) : walk[k] # <<>>]_vars

(* A list that fills its pages exactly, browsed to its last page *)
C11_Witness ==
  /\ last.handler = "paginate_pvz_list"
  /\ last.error = NoError
  /\ Len(sessions[last.user].data.pvz_list) = 2 * items_per_page
  /\ last.input.data = TokPvzPage \o str(1)
  /\ Len(last.markup.buttons) = items_per_page

----------------------------------------------------------------------------
(* The Add Product form.  The administrator sends the trigger, texts and   *)
(* a photo in any order; the customer sends the trigger and a text.        *)


AddTexts(u) ==
  IF is_admin(u)
    THEN {BtnDownload, <<"5", "0", "0">>, <<"3", ",", "5">>,
          <<"a", "b", "c">>}
    ELSE {BtnDownload, <<"a", "b", "c">>}

AddMessages(u) ==
  {TextMessage(t) : t \in AddTexts(u)} \cup {PhotoMessage("file2")}

NextAdd ==
  \E u \in Users :
    \E m \in AddMessages(u) :
      \/ cm_download(u, m)
      \/ load_photo(u, m)
      \/ load_name(u, m)
      \/ load_weight(u, m)
      \/ load_description(u, m)
      \/ \E delivered \in BOOLEAN : load_price(u, m, delivered)
      \/ echo_handler(u, m)

SpecAdd == Init /\ [][NextAdd]_vars

----------------------------------------------------------------------------
(* The validated steps.  The administrator is in the middle of Add         *)
(* Product or Edit Product at a weight or price step, the customer at the  *)
(* contact step of an Order or of a Suggestion, each with the fields the   *)
(* earlier steps of the form have collected.                               *)

CollectedName == <<"a", "b", "c">>

AdminAtValidatedStep ==
  {[sess |-> [state |-> "FSMAdmin:weight",
              data |-> [photo_file_id |-> "file2", name |-> CollectedName]],
    entered |-> [form |-> "add_product", photo |-> "file2",
                 name |-> CollectedName]],
   [sess |-> [state |-> "FSMAdmin:price",
              data |-> [photo_file_id |-> "file2", name |-> CollectedName,
                        weight |-> 50000, description |-> CollectedName]],
    entered |-> [form |-> "add_product", photo |-> "file2",
                 name |-> CollectedName, weight |-> <<"5", "0", "0">>,
                 description |-> CollectedName]],
   [sess |-> [state |-> "FSMAdminEdit:editing_weight",
              data |-> [product_id |-> 1,
                        current_product |-> InitialProducts[1]]],
    entered |-> NoForm],
   [sess |-> [state |-> "FSMAdminEdit:editing_price",
              data |-> [product_id |-> 1,
                        current_product |-> InitialProducts[1],
                        new_name |-> CollectedName]],
    entered |-> NoForm]}

ChosenPvz ==
  [name |-> <<"A">>, code |-> <<"M", "1">>, address |-> <<"L", "1">>,
   address_comment |-> <<>>]

CustomerAtValidatedStep ==
  {[state |-> "FSMOrder:request_contact",
    data |-> [product_id |-> 1, quantity |-> 2,
              city |-> <<"M", "o", "s", "k", "v", "a">>,
              pvz_list |-> <<ChosenPvz>>, selected_pvz |-> ChosenPvz]],
   [state |-> "FSMSuggestions:contact",
    data |-> [text |-> CollectedName]]}

InitValidation ==
  /\ \E a \in AdminAtValidatedStep :
       /\ \E c \in CustomerAtValidatedStep : sessions = <<a.sess, c>>
       /\ entered = <<a.entered, NoForm>>
  /\ products = InitialProducts
  /\ products_id_seq = Len(InitialProducts)
  /\ orders = <<>>
  /\ adminInbox = 0
  /\ cdek = [access_token |-> "t1", token_expires_at |-> 3540]
  /\ now = 0
  /\ last = [user |-> 0, handler |-> "start", from |-> NoState,
             input |-> [kind |-> "none"], error |-> NoError,
             reply |-> NoReply, courier |-> "not_called"]
  /\ e2e = E2EOff
  /\ reviews = <<>>
  /\ reviews_id_seq = 0
  /\ censor = WordsLoaded
  /\ pending = {}

ValidationTexts(u) ==
  IF is_admin(u)
    THEN {<<"5", "0", "0">>, <<"2", "9", "9", ".", "5", "0">>,
          <<"3", ",", "5">>, <<"-", "5">>, <<"0">>, <<"a", "b", "c">>, <<>>}
    ELSE {PhoneExample, <<"a", "b", "c">>, <<"1", "2", "3">>}

NextValidation ==
  \E u \in Users :
    \E text \in ValidationTexts(u) :
      \/ load_weight(u, TextMessage(text))
      \/ \E delivered \in BOOLEAN : load_price(u, TextMessage(text), delivered)
      \/ edit_weight(u, TextMessage(text))
      \/ edit_price(u, TextMessage(text))
      \/ process_contact_text(u, TextMessage(text))
      \/ \E delivered \in BOOLEAN :
           load_suggestions_contact(u, TextMessage(text), delivered)

SpecValidation == InitValidation /\ [][NextValidation]_vars

NumberSteps == {"load_weight", "load_price", "edit_weight", "edit_price"}

PhoneSteps == {"process_contact_text", "load_suggestions_contact"}

(* The step just taken was given a text its validator refuses (a          *)
(* cancellation keyword at the Order contact step is a command, not a      *)
(* contact).                                                               *)
ValidationFailed ==
  /\ Has(last', "message")
  /\ Has(last'.message, "text")
  /\ \/ /\ last'.handler \in NumberSteps
        /\ ~is_positive_number(last'.message.text)
     \/ /\ last'.handler \in PhoneSteps
        /\ ~PHONE_PATTERN(strip(last'.message.text))
        /\ lower(strip(last'.message.text)) \notin CancelKeywords

(* C13: a validation failure (weight or price that is not a positive       *)
(* number in Add Product or Edit Product, a contact that is not a phone    *)
(* number in the Order or Suggestion contact step) leaves every Session,   *)
(* state and collected fields, as it was, persists nothing, and answers    *)
(* with the corrective prompt.                                             *)
C13_ValidationFailure ==
  [][ValidationFailed
       => /\ sessions' = sessions
          /\ <<products', products_id_seq', orders', adminInbox'>>
               = <<products, products_id_seq, orders, adminInbox>>
          /\ <<reviews', reviews_id_seq'>> = <<reviews, reviews_id_seq>>
          /\ last'.error = NoError
          /\ last'.from = sessions[last'.user].state
          /\ last'.reply =
               CASE last'.handler \in {"load_weight", "edit_weight"}
                      -> "bad_weight"
                 [] last'.handler \in {"load_price", "edit_price"}
                      -> "bad_price"
                 [] OTHER -> "bad_phone"]_vars

(* The price step of Add Product has refused "-5" and the administrator's  *)
(* Session still holds the four collected fields; the customer's Order     *)
(* is untouched.                                                           *)
C13_Witness ==
  /\ last.handler = "load_price"
  /\ last.reply = "bad_price"
  /\ last.message.text = <<"-", "5">>
  /\ sessions[1].state = "FSMAdmin:price"
  /\ DOMAIN sessions[1].data
       = {"photo_file_id", "name", "weight", "description"}
  /\ sessions[2].state = "FSMOrder:request_contact"
  /\ Has(sessions[2].data, "selected_pvz")
  /\ products = InitialProducts

AcceptedValue(text) == float(replace(strip(text), ",", ".")).val

(* C14: every text the positive-number validator accepts is accepted by    *)
(* the weight and price steps of Add Product and Edit Product: the value   *)
(* is stored and the form goes on without the handler failing on the       *)
(* text.  The validator accepts "500", "299.50" and "3,5" and rejects      *)
(* "-5", "0", "abc" and the empty string.                                  *)
C14_AcceptedNumbers ==
  /\ \A t \in {<<"5", "0", "0">>, <<"2", "9", "9", ".", "5", "0">>,
               <<"3", ",", "5">>} : is_positive_number(t)
  /\ \A t \in {<<"-", "5">>, <<"0">>, <<"a", "b", "c">>, <<>>} :
       ~is_positive_number(t)
  /\ [][(/\ last'.handler \in NumberSteps
         /\ Has(last'.message, "text")
         /\ is_positive_number(last'.message.text))
        => LET u == last'.user
               value == AcceptedValue(last'.message.text)
           IN  /\ last'.error # "ValueError"
               /\ last'.reply \notin {"bad_weight", "bad_price"}
               /\ CASE last'.handler = "load_weight"
                         -> /\ sessions'[u].state = "FSMAdmin:description"
                            /\ sessions'[u].data.weight = value
                    [] last'.handler = "edit_weight"
                         -> /\ Has(sessions'[u].data, "new_weight")
                            /\ sessions'[u].data.new_weight = value
                    [] last'.handler = "edit_price"
                         -> /\ Has(sessions'[u].data, "new_price")
                            /\ sessions'[u].data.new_price = value
                    [] OTHER
                         -> /\ Len(products') = Len(products) + 1
                            /\ products'[Len(products')].price = value]_vars

(* C15: in every Add Product state an event of the wrong kind (a text in   *)
(* the photo state; a photo in name, weight, description or price) leaves  *)
(* the Session unchanged and is answered with a corrective prompt of the   *)
(* form, and the handler does not fail.                                    *)
C15_WrongKind ==
  [][LET u == last'.user
         wrongKind ==
           \/ last'.from = "FSMAdmin:photo" /\ last'.input.kind = "text"
           \/ /\ last'.from \in FSMAdmin \ {"FSMAdmin:photo"}
              /\ last'.input.kind = "photo"
     IN  wrongKind =>
           /\ sessions'[u] = sessions[u]
           /\ last'.error = NoError
           /\ last'.reply \in {"ask_photo", "bad_weight", "bad_price"}]_vars

----------------------------------------------------------------------------
(* The Edit Product form.  The administrator picks the product, picks      *)
(* fields, sends values, finishes, and may delete the product; the         *)
(* customer presses a stale edit_done.                                     *)

EditTexts(u) ==
  IF is_admin(u) THEN {<<"2", "5", "0">>, <<"3", ",", "5">>} ELSE {}

EditMessages(u) ==
  {TextMessage(t) : t \in EditTexts(u)}
    \cup (IF is_admin(u) THEN {PhotoMessage("file2")} ELSE {})

EditTokens(u) ==
  IF is_admin(u)
    THEN {TokEditProduct \o str(1), TokEditDone, TokDeleteProduct \o str(1)}
           \cup {TokEditField \o entry[1] : entry \in field_to_state}
    ELSE {TokEditDone}

NextEdit ==
  \E u \in Users :
    \/ \E m \in EditMessages(u) :
         \/ edit_name(u, m)
         \/ edit_weight(u, m)
         \/ edit_description(u, m)
         \/ edit_price(u, m)
         \/ echo_handler(u, m)
    \/ \E cb \in EditTokens(u) :
         \/ process_edit_product(u, cb)
         \/ edit_field_selected(u, cb)
         \/ finish_editing(u, cb)
         \/ handle_delete_product(u, cb)

SpecEdit == Init /\ [][NextEdit]_vars

FieldStates ==
  {"FSMAdminEdit:editing_photo", "FSMAdminEdit:editing_name",
   "FSMAdminEdit:editing_weight", "FSMAdminEdit:editing_description",
   "FSMAdminEdit:editing_price"}

(* C16: in Edit Product, once a value is accepted as the shadow value of   *)
(* a field, the Session has left the per-field edit state and is back at   *)
(* the choice of a field, so that a further text or photo is not taken as  *)
(* a new value.                                                            *)
C16_BackToFieldSelection ==
  [][(/\ last'.handler \in {"edit_name", "edit_weight", "edit_description",
                            "edit_price"}
      /\ last'.reply = "edit_menu")
     => sessions'[last'.user].state \notin FieldStates]_vars

Fields == {PRODUCT_LIST[i] : i \in 1..Len(PRODUCT_LIST)}

(* C17: on edit_done for an existing product P each of the five fields     *)
(* written is the Session's shadow value new_<field> if one was entered,   *)
(* otherwise P's own value; the product is saved if at least one field     *)
(* was entered and not otherwise; the Session is cleared in both cases,    *)
(* so a second edit_done writes nothing.                                   *)
C17_EditDone ==
  [][last'.handler = "finish_editing" =>
       LET u == last'.user
           data == sessions[u].data
           edited == {i \in 1..Len(products) :
                        /\ Has(data, "product_id")
                        /\ products[i].id = data.product_id
                        /\ \E f \in Fields : Has(data, NewKey(f))}
       IN  /\ sessions'[u] = Idle
           /\ Len(products') = Len(products)
           /\ products_id_seq' = products_id_seq
           /\ \A i \in 1..Len(products) :
                IF i \in edited
                  THEN /\ products'[i].id = products[i].id
                       /\ DOMAIN products'[i] = DOMAIN products[i]
                       /\ \A f \in Fields :
                            products'[i][f] =
                              IF Has(data, NewKey(f)) THEN data[NewKey(f)]
                              ELSE products[i][f]
                  ELSE products'[i] = products[i]]_vars

(* Name and price were entered, the other fields are the product's own;   *)
(* the Session is cleared                                                  *)
C17_Witness ==
  /\ last.handler = "finish_editing"
  /\ last.reply = "product_updated"
  /\ sessions[last.user] = Idle
  /\ Len(products) = 1
  /\ products[1].name = <<"3", ",", "5">>
  /\ products[1].price = 25000
  /\ products[1].weight = 50000
  /\ products[1].description = <<"t", "e", "a">>
  /\ products[1].photo_file_id = "file1"

----------------------------------------------------------------------------
(* The Review form.  The customer leaves a review of the product; the     *)
(* administrator may delete the product in between.                        *)

ReviewTexts == {<<"a", "b", "c">>, <<"N", "e", "t">>}

ReviewMessages(u) ==
  IF is_admin(u) THEN {}
  ELSE {TextMessage(t) : t \in ReviewTexts} \cup {PhotoMessage("file3")}

ReviewTokens(u) ==
  IF is_admin(u) THEN {TokDeleteProduct \o str(1)}
  ELSE {TokReviewStart, TokReviewProduct \o str(1), TokSkipPhoto}

NextReview ==
  \E u \in Users :
    \/ \E m \in ReviewMessages(u) :
         \/ load_review_text(u, m)
         \/ load_review_photo(u, m)
         \/ \E delivered \in BOOLEAN : load_review_contact(u, m, delivered)
         \/ echo_handler(u, m)
    \/ \E cb \in ReviewTokens(u) :
         \/ start_review(u, cb)
         \/ select_review_product(u, cb)
         \/ skip_review_photo(u, cb)
         \/ handle_delete_product(u, cb)

SpecReview == Init /\ [][NextReview]_vars

(* C18: at the Review contact step an input that matches a skip value      *)
(* without regard to case (or is empty) makes the persisted Review's       *)
(* contact absent (null); any other input is persisted as entered.         *)
C18_SkippedContact ==
  [][(last'.handler = "load_review_contact" /\ Len(reviews') > Len(reviews))
     => LET row == reviews'[Len(reviews')]
            text == last'.message.text
        IN  IF lower(strip(text)) \in CONTACT_SKIP_VALUES
              THEN ~Has(row, "contact")
              ELSE Has(row, "contact") /\ row.contact = text]_vars

(* C19: a completed Review flow persists exactly one Review carrying the   *)
(* product selected in select_product, the entered text and the user's     *)
(* id, notifies the administrator and clears the Session; the product of   *)
(* every Review exists when the Review is created, so a flow whose         *)
(* product was deleted before the contact step persists no Review.         *)
C19_ReviewPersisted ==
  [][LET u == last'.user
         e == entered'[u]
         atContact == /\ last'.handler = "load_review_contact"
                      /\ Has(last'.message, "text")
         complete == /\ atContact
                     /\ Has(e, "text")
                     /\ \E i \in 1..Len(products) :
                          products[i].id = e.product_id
     IN  /\ Len(reviews') > Len(reviews) <=> complete
         /\ atContact => e.form = "review"
         /\ complete =>
              LET row == reviews'[Len(reviews')]
              IN  /\ reviews' = Append(reviews, row)
                  /\ \A i \in 1..Len(reviews) : reviews[i].id # row.id
                  /\ row.product_id = e.product_id
                  /\ row.text = e.text
                  /\ row.user_id = u
                  /\ last'.error = NoError =>
                       /\ adminInbox' = adminInbox + 1
                       /\ sessions'[u] = Idle
         /\ (atContact /\ ~complete) =>
              /\ reviews' = reviews
              /\ adminInbox' = adminInbox]_vars

(* The customer's review of product 1 is stored and the administrator has  *)
(* been told                                                               *)
C19_Witness ==
  /\ last.handler = "load_review_contact"
  /\ last.reply = "thanks"
  /\ last.user = 2
  /\ Len(reviews) = 1
  /\ reviews[1].product_id = 1
  /\ reviews[1].user_id = 2
  /\ reviews[1].text = <<"a", "b", "c">>
  /\ adminInbox = 1
  /\ sessions[2] = Idle

----------------------------------------------------------------------------
(* The Edit Review form.  Each user has left one review of the product;    *)
(* both press the edit buttons of both reviews and send texts.             *)

InitialReviews ==
  <<[id |-> 1, text |-> <<"a", "b", "c">>, contact |-> NotGiven,
     user_id |-> 2, product_id |-> 1],
    [id |-> 2, text |-> <<"t", "e", "a">>, contact |-> PhoneExample,
     user_id |-> 1, product_id |-> 1]>>

InitReviewEdit ==
  /\ sessions = [u \in Users |-> [state |-> NoState, data |-> EmptyData]]
  /\ products = InitialProducts
  /\ products_id_seq = Len(InitialProducts)
  /\ orders = <<>>
  /\ adminInbox = Len(InitialReviews)
  /\ cdek = [token_expires_at |-> 0]
  /\ now = 0
  /\ last = [user |-> 1, handler |-> "load_review_contact",
             from |-> "FSMReview:contact",
             input |-> [kind |-> "text", class |-> "other"],
             error |-> NoError, reply |-> "thanks",
             courier |-> "not_called",
             message |-> TextMessage(PhoneExample)]
  /\ e2e = E2EOff
  /\ reviews = InitialReviews
  /\ reviews_id_seq = Len(InitialReviews)
  /\ censor = WordsLoaded
  /\ pending = {}
  /\ entered = [u \in Users |->
                  [form |-> "review", product_id |-> 1,
                   text |-> InitialReviews[3 - u].text,
                   contact |-> IF is_admin(u) THEN PhoneExample
                               ELSE <<"-">>]]

ReviewEditTexts == {<<"a", "b", "c">>, <<"P", "r", "o", "p", "u", "s", "t", "i", "t">>}

ReviewEditMessages ==
  {TextMessage(t) : t \in ReviewEditTexts} \cup {PhotoMessage("file3")}

ReviewEditTokens ==
  {TokEditReview \o str(1), TokEditReview \o str(2), TokSkipPhoto}

NextReviewEdit ==
  \E u \in Users :
    \/ \E m \in ReviewEditMessages :
         \/ process_edit_text(u, m)
         \/ process_edit_contact(u, m)
         \/ echo_handler(u, m)
    \/ \E cb \in ReviewEditTokens :
         \/ start_edit_review(u, cb)
         \/ skip_edit_contact(u, cb)
    \/ handle_delete_product(u, TokDeleteProduct \o str(1))

SpecReviewEdit == InitReviewEdit /\ [][NextReviewEdit]_vars

(* C20: edit_review_<id> pressed by a user who is not the Review's author  *)
(* is refused: the form is not entered, the Session and the Review are     *)
(* unchanged.  The text and contact of a Review are only ever updated by   *)
(* a flow started by its author.                                           *)
C20_OnlyAuthorEdits ==
  [][LET u == last'.user
     IN  /\ (/\ last'.handler = "start_edit_review"
             /\ \E i \in 1..Len(reviews) :
                  /\ TokEditReview \o str(reviews[i].id) = last'.input.data
                  /\ reviews[i].user_id # u)
            => /\ sessions' = sessions
               /\ reviews' = reviews
               /\ last'.reply = "not_yours"
         /\ \A i \in 1..Len(reviews) :
              \A j \in 1..Len(reviews') :
                (reviews'[j].id = reviews[i].id /\ reviews'[j] # reviews[i])
                  => /\ reviews[i].user_id = u
                     /\ sessions[u].state = "FSMReviewEdit:editing_contact"
                     /\ sessions[u].data.review_id = reviews[i].id]_vars

(* The customer's edit of the own review is stored, then the customer's   *)
(* press of the administrator's review is refused                          *)
C20_Witness ==
  /\ last.handler = "start_edit_review"
  /\ last.reply = "not_yours"
  /\ last.user = 2
  /\ last.input.data = TokEditReview \o str(2)
  /\ sessions[2] = Idle
  /\ reviews[1].text = <<"P", "r", "o", "p", "u", "s", "t", "i", "t">>
  /\ reviews[2] = InitialReviews[2]

(* The columns of a Review that an edit may not touch *)
Immutable(row) == Without(Without(row, "text"), "contact")

----------------------------------------------------------------------------
(* The Suggestion form.  The customer starts it, gives a text, a photo or  *)
(* not, and contacts that are and are not phone numbers.                   *)

SuggestionMessages(u) ==
  IF is_admin(u) THEN {}
  ELSE {TextMessage(<<"a", "b", "c">>), TextMessage(<<"N", "e", "t">>),
        TextMessage(PhoneExample), PhotoMessage("file3")}

SuggestionTokens(u) ==
  IF is_admin(u) THEN {} ELSE {TokSuggestionsStart, TokSkipPhoto}

NextSuggestion ==
  \E u \in Users :
    \/ \E m \in SuggestionMessages(u) :
         \/ load_suggestions_text(u, m)
         \/ load_suggestions_photo(u, m)
         \/ \E delivered \in BOOLEAN : load_suggestions_contact(u, m, delivered)
         \/ echo_handler(u, m)
    \/ \E cb \in SuggestionTokens(u) :
         \/ start_suggestions(u, cb)
         \/ skip_suggestions_photo(u, cb)

SpecSuggestion == Init /\ [][NextSuggestion]_vars

(* C22: the Suggestion form completes only with a contact that is a phone  *)
(* number.  A contact that is not (a skip value included) keeps the        *)
(* Session in the contact state with its text and photo and sends          *)
(* nothing to the administrator; a phone number sends one message that     *)
(* carries the text given, the photo if one was given and the contact,     *)
(* and clears the Session.                                                 *)
C22_SuggestionContact ==
  [][LET u == last'.user
         atContact == /\ last'.handler = "load_suggestions_contact"
                      /\ Has(last'.message, "text")
         contact == strip(last'.message.text)
         e == entered[u]
     IN  /\ adminInbox' # adminInbox
              => atContact /\ PHONE_PATTERN(contact)
         /\ (atContact /\ ~PHONE_PATTERN(contact))
              => /\ sessions' = sessions
                 /\ sessions[u].state = "FSMSuggestions:contact"
                 /\ adminInbox' = adminInbox
                 /\ last'.reply = "bad_phone"
         /\ (atContact /\ PHONE_PATTERN(contact) /\ last'.error = NoError)
              => /\ adminInbox' = adminInbox + 1
                 /\ e.form = "suggestion"
                 /\ last'.notice =
                      Merge([contact |-> contact],
                            Merge(IF Has(e, "text") THEN [text |-> e.text]
                                  ELSE EmptyData,
                                  IF Has(e, "photo") THEN [photo |-> e.photo]
                                  ELSE EmptyData))
                 /\ sessions'[u] = Idle]_vars

(* A suggestion with a text and a photo has reached the administrator      *)
(* with the phone number given, and the Session is cleared                 *)
C22_Witness ==
  /\ last.handler = "load_suggestions_contact"
  /\ last.reply = "thanks"
  /\ last.notice = [text |-> <<"a", "b", "c">>, photo |-> "file3",
                    contact |-> PhoneExample]
  /\ adminInbox = 1
  /\ sessions[last.user] = Idle

FormStates ==
  FSMAdmin \cup FSMAdminEdit \cup FSMReview \cup FSMReviewEdit \cup FSMOrder
    \cup FSMSuggestions

(* C23: every user's Session state is idle or one of the states of a       *)
(* form, and an idle Session holds no fields.                              *)
C23_SessionShape ==
  \A u \in Users :
    /\ sessions[u].state \in {NoState} \cup FormStates
    /\ sessions[u].state = NoState => sessions[u].data = EmptyData

----------------------------------------------------------------------------
(* The courier's token over time.  Both users are at the city step of an   *)
(* Order and send city names while the clock moves on to the instants      *)
(* around the expiry of a token.                                           *)

AtCityStep ==
  [state |-> "FSMOrder:enter_city",
   data |-> [product_id |-> 1, quantity |-> 2]]

InitToken ==
  /\ sessions = [u \in Users |-> AtCityStep]
  /\ products = InitialProducts
  /\ products_id_seq = Len(InitialProducts)
  /\ orders = <<>>
  /\ adminInbox = 0
  /\ cdek = [token_expires_at |-> 0]
  /\ now = 0
  /\ last = [user |-> 0, handler |-> "start", from |-> NoState,
             input |-> [kind |-> "none"], error |-> NoError,
             reply |-> NoReply, courier |-> "not_called"]
  /\ e2e = E2EOff
  /\ reviews = <<>>
  /\ reviews_id_seq = 0
  /\ censor = WordsLoaded
  /\ pending = {}
  /\ entered = [u \in Users |-> NoForm]

Instants == {0, 1, 3539, 3540, 3541, 3600}

(* time.time() has moved on *)
time_passes ==
  /\ \E t \in Instants : t > now /\ now' = t
  /\ UNCHANGED <<sessions, Tables, Reviews, entered, cdek, last, e2e, censor, pending>>

NextToken ==
  \/ time_passes
  \/ \E u \in Users : \E city \in {Moskva, Omsk} :
       enter_city(u, TextMessage(city))

SpecToken == InitToken /\ [][NextToken]_vars

(* The token is cached and the time is before its stored expiry *)
Fresh(client, t) == Has(client, "access_token") /\ t < client.token_expires_at

ExpiresIn == (CHOOSE r \in TokenResponses : r.kind = "ok").expires_in

(* The cache after a call: a token request that succeeded at time t has    *)
(* stored its token with the expiry t + expires_in - 60                    *)
After(client, call, t) ==
  IF call.requested /\ Has(call, "token")
    THEN [access_token |-> call.token,
          token_expires_at |-> t + ExpiresIn - 60]
    ELSE client

TokenRule(client, call, t) ==
  /\ call.requested <=> ~Fresh(client, t)
  /\ ~call.requested
       => /\ Has(call, "token")
          /\ call.token = client.access_token
          /\ t + 60 < client.token_expires_at + 60

(* C24: a courier call takes the cached token without a token request iff  *)
(* a token is cached and the time is before request time + expires_in -    *)
(* 60 s; otherwise it issues a token request and caches the new token      *)
(* with that expiry; every city and pickup-point call carries a token      *)
(* obtained this way, and no call follows a token request that failed.     *)
C24_TokenCache ==
  [][(last'.handler = "enter_city" /\ Has(last', "calls") /\ now' = now)
     => LET calls == last'.calls
            mid == After(cdek, calls[1], now)
        IN  /\ Len(calls) \in {1, 2}
            /\ TokenRule(cdek, calls[1], now)
            /\ ~Has(calls[1], "token") => Len(calls) = 1
            /\ IF Len(calls) = 1 THEN cdek' = mid
               ELSE /\ TokenRule(mid, calls[2], now)
                    /\ cdek' = After(mid, calls[2], now)]_vars

(* At 3539 both courier calls of a step are served with the token that    *)
(* was requested at time 0 and is stored as expiring at 3540               *)
C24_Witness ==
  /\ last.handler = "enter_city"
  /\ Has(last, "calls")
  /\ now = 3539
  /\ last.calls = <<[requested |-> FALSE, token |-> "t1"],
                    [requested |-> FALSE, token |-> "t1"]>>
  /\ cdek = [access_token |-> "t1", token_expires_at |-> 3540]

----------------------------------------------------------------------------
(* The moderation filter.  The process starts with the word list not yet   *)
(* loaded and cenz.json in one of the conditions get_censored_words can    *)
(* meet; the users send texts and photos, idle and after starting a form.  *)

InitCensor ==
  /\ sessions = [u \in Users |-> [state |-> NoState, data |-> EmptyData]]
  /\ products = InitialProducts
  /\ products_id_seq = Len(InitialProducts)
  /\ orders = <<>>
  /\ adminInbox = 0
  /\ cdek = [token_expires_at |-> 0]
  /\ now = 0
  /\ last = [user |-> 0, handler |-> "start", from |-> NoState,
             input |-> [kind |-> "none"], error |-> NoError,
             reply |-> NoReply, courier |-> "not_called"]
  /\ e2e = E2EOff
  /\ reviews = <<>>
  /\ reviews_id_seq = 0
  /\ entered = [u \in Users |-> NoForm]
  /\ censor \in {[source |-> k, reads |-> 0] : k \in SourceKinds}
  /\ pending = {}

CensorMessages ==
  {TextMessage(<<"m", "a", "t">>), TextMessage(<<"a", "b", "c">>),
   TextMessage(BtnStartOrder), TextMessage(BtnDownload), PhotoMessage("file3")}

NextCensor ==
  \E u \in Users :
    \/ \E m \in CensorMessages :
         \/ echo_handler(u, m)
         \/ start_order(u, m)
         \/ cm_download(u, m)
    \/ start_review(u, TokReviewStart)

SpecCensor == InitCensor /\ [][NextCensor]_vars

(* C25: the forbidden words are loaded at most once per process: after the *)
(* first use of the filter, whether the load succeeded or failed on a      *)
(* missing or corrupt cenz.json, later uses do not read it again; after a  *)
(* failed load the set is empty, the filter flags no text, and the         *)
(* failure is not raised to the caller.                                    *)
C25_LoadedOnce ==
  [][(last'.handler = "echo_handler" /\ last'.input.kind = "text")
     => /\ censor'.reads = 1
        /\ Has(censor', "cache")
        /\ censor.reads = 1 => censor' = censor
        /\ censor.source # "words"
             => /\ censor'.cache = {}
                /\ last'.error = NoError
                /\ last'.reply # "censored"]_vars

(* C26: the moderation filter is applied to a text only when its sender    *)
(* has no active form: while the Session is in a state of a form, no text  *)
(* of that user is screened, warned about or deleted.                      *)
C26_FilterOutsideForms ==
  [][(/\ last'.handler = "echo_handler"
      /\ last'.input.kind = "text"
      /\ last'.from \in FormStates)
     => /\ censor' = censor
        /\ last'.reply # "censored"]_vars

----------------------------------------------------------------------------
(* The pages of a product's reviews: database.py, keyboards/client_kb.py,  *)
(* handlers/client.py.                                                     *)

per_page == 3

(* t.split(sep) for a one-character separator *)
RECURSIVE split_on(_, _)
split_on(t, sep) ==
  LET cuts == {i \in 1..Len(t) : t[i] = sep}
      cut == CHOOSE i \in cuts : \A j \in cuts : i <= j
  IN  IF cuts = {} THEN <<t>>
      ELSE <<SubSeq(t, 1, cut - 1)>> \o split_on(SubSeq(t, cut + 1, Len(t)), sep)

(* SELECT id, text, contact, photo_file_id FROM reviews WHERE product_id   *)
(* ORDER BY created_at DESC LIMIT per_page OFFSET (page - 1) * per_page,   *)
(* and the count of the rows of the product.  PostgreSQL refuses a       *)
(* negative OFFSET, and the exception leaves the function; an OFFSET past  *)
(* the last row selects nothing.  Rows are created in the order of the     *)
(* table, so the newest is the last one.                                   *)
get_reviews_for_product_paginated(reviewRows, product_id, page, perPage) ==
  LET offset == (page - 1) * perPage
      mine == SelectSeq(reviewRows, LAMBDA r : Has(r, "product_id")
                                               /\ r.product_id = product_id)
      newest == [k \in 1..Len(mine) |-> mine[Len(mine) + 1 - k]]
      end == IF offset + perPage < Len(mine) THEN offset + perPage ELSE Len(mine)
      column(r) == Merge([id |-> r.id, text |-> r.text],
                         Merge(Optional(r, "contact", "contact"),
                               Optional(r, "photo_file_id", "photo_file_id")))
  IN  IF offset < 0
        THEN [raised |-> TRUE]
      ELSE [raised |-> FALSE,
            reviews |-> IF offset >= Len(mine) THEN <<>>
                        ELSE [k \in 1..(end - offset) |-> column(newest[offset + k])],
            total |-> Len(mine)]

(* total_pages = (total_reviews + per_page - 1) // per_page or 1 *)
total_pages(total_reviews, perPage) ==
  IF (total_reviews + perPage - 1) \div perPage = 0
    THEN 1 ELSE (total_reviews + perPage - 1) \div perPage

(* The navigation row: the page is brought into 1..total_pages for the     *)
(* label and the two arrows only.                                          *)
get_reviews_pagination_kb(product_id, page, total_reviews, perPage) ==
  LET pages == total_pages(total_reviews, perPage)
      low == IF page < pages THEN page ELSE pages
      shown == IF low > 1 THEN low ELSE 1
  IN  [back |-> IF shown > 1
                  THEN TokReviewsPage \o str(product_id) \o <<"_">> \o str(shown - 1)
                  ELSE <<"n", "o", "o", "p">>,
       page |-> shown,
       pages |-> pages,
       forward |-> IF shown < pages
                     THEN TokReviewsPage \o str(product_id) \o <<"_">> \o str(shown + 1)
                     ELSE <<"n", "o", "o", "p">>]

(* What a handler asked of get_reviews_for_product_paginated and got *)
Paged(outcome, product_id, page, paged) ==
  Merge(outcome, [request |-> [product_id |-> product_id, page |-> page],
                  paged |-> paged])

(* Each row fetched has four columns and is unpacked into three names:     *)
(* `text, contact, _ = review` raises ValueError for the first row, before *)
(* the keyboard is built.                                                  *)
show_reviews_for_product(u, cb) ==
  /\ startswith(cb, TokShowReviews)
  /\ CallbackHandler(u, Session(u).state, cb) = "show_reviews_for_product"
  /\ UNCHANGED <<sessions, Tables, Reviews, entered, cdek, now, censor, pending>>
  /\ LET product_id == int(SplitLast(cb, "_"))
         found == SelectSeq(load_products(products), LAMBDA p : p.id = product_id.val)
         paged == get_reviews_for_product_paginated(reviews, product_id.val, 1, per_page)
     IN  last' = IF ~product_id.ok
                   THEN Outcome(u, "show_reviews_for_product", Pressed(cb), "ValueError", NoReply)
                 ELSE IF found = <<>>
                   THEN Outcome(u, "show_reviews_for_product", Pressed(cb), NoError, "product_not_found")
                 ELSE IF paged.reviews = <<>>
                   THEN Paged(Outcome(u, "show_reviews_for_product", Pressed(cb), NoError, "no_reviews_yet"), product_id.val, 1, paged)
                 ELSE Paged(Outcome(u, "show_reviews_for_product", Pressed(cb), "ValueError", NoReply), product_id.val, 1, paged)
  /\ e2e' = Track(u, 0)

reviews_pagination(u, cb) ==
  /\ startswith(cb, TokReviewsPage)
  /\ CallbackHandler(u, Session(u).state, cb) = "reviews_pagination"
  /\ UNCHANGED <<sessions, Tables, Reviews, entered, cdek, now, censor, pending>>
  /\ LET parts == split_on(cb, "_")
         product_id == int(parts[3])
         page == int(parts[4])
         paged == get_reviews_for_product_paginated(reviews, product_id.val, page.val, per_page)
     IN  last' = IF Len(parts) < 4
                   THEN Outcome(u, "reviews_pagination", Pressed(cb), "IndexError", NoReply)
                 ELSE IF ~product_id.ok \/ ~page.ok
                   THEN Outcome(u, "reviews_pagination", Pressed(cb), "ValueError", NoReply)
                 ELSE IF paged.raised
                   THEN Paged(Outcome(u, "reviews_pagination", Pressed(cb), "DatabaseError", NoReply), product_id.val, page.val, paged)
                 ELSE IF paged.reviews = <<>>
                   THEN Paged(Outcome(u, "reviews_pagination", Pressed(cb), NoError, "reviews_not_found"), product_id.val, page.val, paged)
                 ELSE Paged(Outcome(u, "reviews_pagination", Pressed(cb), "ValueError", NoReply), product_id.val, page.val, paged)
  /\ e2e' = Track(u, 0)

(* Two products, and up to MaxPaged reviews of them left by the customer *)
TwoProducts ==
  InitialProducts
  \o <<[id |-> 2, name |-> <<"O", "o", "l", "o", "n", "g">>, weight |-> 10000,
        description |-> <<"t", "e", "a">>, price |-> 29950,
        photo_file_id |-> "file2"]>>

MaxPaged == 4

ReviewOf(id, product_id) ==
  [id |-> id, text |-> <<"t", "e", "a">> \o str(id), contact |-> NotGiven,
   user_id |-> 2, product_id |-> product_id]

ReviewTables ==
  UNION {{[i \in 1..n |-> ReviewOf(i, f[i])] : f \in [1..n -> {1, 2}]}
         : n \in 0..MaxPaged}

InitPaging ==
  /\ sessions = [u \in Users |-> [state |-> NoState, data |-> EmptyData]]
  /\ products = TwoProducts
  /\ products_id_seq = Len(TwoProducts)
  /\ orders = <<>>
  /\ reviews \in ReviewTables
  /\ reviews_id_seq = Len(reviews)
  /\ adminInbox = Len(reviews)
  /\ cdek = [token_expires_at |-> 0]
  /\ now = 0
  /\ last = [user |-> 0, handler |-> "start", from |-> NoState,
             input |-> [kind |-> "none"], error |-> NoError,
             reply |-> NoReply, courier |-> "not_called"]
  /\ e2e = E2EOff
  /\ entered = [u \in Users |-> NoForm]
  /\ censor = WordsLoaded
  /\ pending = {}

PagingTokens ==
  {TokReviewsPage \o str(p) \o <<"_">> \o str(k) : p \in 1..3, k \in 0..3}
  \cup {TokShowReviews \o str(p) : p \in 1..3}

NextPaging ==
  \E u \in Users, cb \in PagingTokens :
    \/ show_reviews_for_product(u, cb)
    \/ reviews_pagination(u, cb)

SpecPaging == InitPaging /\ [][NextPaging]_vars

(* C27: a page of a product's reviews holds at most per_page reviews, all  *)
(* of that product, and comes with the product's total review count; with  *)
(* totalPages = max(1, ceil(total / per_page)), a request for page 0 or    *)
(* for a page greater than totalPages is answered with the reviews of the  *)
(* page brought into 1..totalPages, and neither fails nor is empty.        *)
C27_PagedReviews ==
  [][Has(last', "paged")
     => LET product_id == last'.request.product_id
            page == last'.request.page
            total == Cardinality({i \in 1..Len(reviews) :
                                    reviews[i].product_id = product_id})
            pages == total_pages(total, per_page)
            low == IF page < pages THEN page ELSE pages
            clamped == IF low > 1 THEN low ELSE 1
            got == last'.paged
        IN  /\ ~got.raised
            /\ got.total = total
            /\ Len(got.reviews) <= per_page
            /\ \A k \in 1..Len(got.reviews) :
                 \E i \in 1..Len(reviews) :
                   /\ reviews[i].id = got.reviews[k].id
                   /\ reviews[i].product_id = product_id
            /\ got.reviews = get_reviews_for_product_paginated(
                               reviews, product_id, clamped, per_page).reviews]_vars

----------------------------------------------------------------------------
(* Deleting a product.  The table holds up to MaxCascade reviews, each of  *)
(* one of two products or of none; both users press the delete buttons of  *)
(* the two products and of a product that does not exist.                  *)

MaxCascade == 3

CascadeTables ==
  UNION {{[i \in 1..n |-> IF f[i] = 0 THEN Without(ReviewOf(i, 0), "product_id")
                          ELSE ReviewOf(i, f[i])] : f \in [1..n -> {0, 1, 2}]}
         : n \in 0..MaxCascade}

InitCascade ==
  /\ sessions = [u \in Users |-> [state |-> NoState, data |-> EmptyData]]
  /\ products = TwoProducts
  /\ products_id_seq = Len(TwoProducts)
  /\ orders = <<>>
  /\ reviews \in CascadeTables
  /\ reviews_id_seq = Len(reviews)
  /\ adminInbox = Len(reviews)
  /\ cdek = [token_expires_at |-> 0]
  /\ now = 0
  /\ last = [user |-> 0, handler |-> "start", from |-> NoState,
             input |-> [kind |-> "none"], error |-> NoError,
             reply |-> NoReply, courier |-> "not_called"]
  /\ e2e = E2EOff
  /\ entered = [u \in Users |-> NoForm]
  /\ censor = WordsLoaded
  /\ pending = {}

NextCascade ==
  \E u \in Users, p \in 1..3 :
    handle_delete_product(u, TokDeleteProduct \o str(p))

SpecCascade == InitCascade /\ [][NextCascade]_vars

References(row, product_id) ==
  Has(row, "product_id") /\ row.product_id = product_id

Rows(table) == {table[i] : i \in 1..Len(table)}

(* C28: deleting product P removes exactly the reviews of P: afterwards no *)
(* review references P, and every review of another product or of no       *)
(* product is still in the table, unchanged; no other row appears.         *)
C28_CascadeScope ==
  [][(last'.handler = "handle_delete_product" /\ last'.reply = "product_deleted")
     => LET P == int(SplitLast(last'.input.data, "_")).val
        IN  /\ \A row \in Rows(reviews') : ~References(row, P)
            /\ \A row \in Rows(reviews) : ~References(row, P) => row \in Rows(reviews')
            /\ Rows(reviews') \subseteq Rows(reviews)
            /\ Len(reviews') = Cardinality(Rows(reviews'))
            /\ \A row \in Rows(products') : row.id # P]_vars

(* Product 1 has been deleted from a table of three reviews, one of each   *)
(* kind: the review of product 2 and the one of no product remain.         *)
C28_Witness ==
  /\ last.handler = "handle_delete_product"
  /\ last.reply = "product_deleted"
  /\ last.input.data = TokDeleteProduct \o str(1)
  /\ reviews_id_seq = 3
  /\ Len(reviews) = 2
  /\ \E row \in Rows(reviews) : References(row, 2)
  /\ \E row \in Rows(reviews) : ~Has(row, "product_id")
  /\ Len(products) = 1

----------------------------------------------------------------------------
(* The sales statistics: utils/utils.py, database.py, handlers/admin.py.   *)
(* orders.total_price is a TEXT column; the rows here hold it as the text  *)
(* read back from the table, or hold no total_price where it is NULL.      *)
(* Amounts are in hundredths; "R" stands for the rouble sign.              *)

(* extract_price with float(price_str) in place of the cleaned text *)
extract_price_uncleaned(price_str) ==
  IF price_str = <<>> THEN 0
  ELSE IF float(price_str).ok THEN float(price_str).val ELSE 0

(* re.sub(r'[^\d.,]', '', price_str); commas are thousands separators     *)
(* when a point is present as well and decimal points otherwise; float()   *)
(* of the result, and 0.0 where it raises ValueError.                      *)
extract_price(price_str) ==
  LET cleaned == SelectSeq(price_str, LAMBDA c : c \in DigitChars \cup {".", ","})
      commas == \E i \in 1..Len(cleaned) : cleaned[i] = ","
      points == \E i \in 1..Len(cleaned) : cleaned[i] = "."
      number == IF commas /\ points
                  THEN SelectSeq(cleaned, LAMBDA c : c # ",")
                ELSE IF commas THEN replace(cleaned, ",", ".")
                ELSE cleaned
  IN  IF price_str = <<>> THEN 0
      ELSE IF cleaned = <<>> THEN 0
      ELSE IF float(number).ok THEN float(number).val ELSE 0

(* total_revenue: the loop over SELECT total_price FROM orders; a NULL     *)
(* total_price is not price_str and counts 0.0.                            *)
RECURSIVE total_revenue(_)
total_revenue(orderRows) ==
  IF orderRows = <<>> THEN 0
  ELSE total_revenue(SubSeq(orderRows, 1, Len(orderRows) - 1))
       + (IF Has(orderRows[Len(orderRows)], "total_price")
            THEN extract_price(orderRows[Len(orderRows)].total_price)
            ELSE 0)

(* SELECT product_name, SUM(quantity) FROM orders GROUP BY product_name *)
RECURSIVE total_qty(_, _)
total_qty(orderRows, product_name) ==
  IF orderRows = <<>> THEN 0
  ELSE total_qty(Tail(orderRows), product_name)
       + (IF Head(orderRows).product_name = product_name
            THEN Head(orderRows).quantity ELSE 0)

get_statistics(orderRows) ==
  [sold_products |-> {<<orderRows[i].product_name,
                        total_qty(orderRows, orderRows[i].product_name)>>
                      : i \in 1..Len(orderRows)},
   total_revenue |-> total_revenue(orderRows)]

handle_stats(u, m) ==
  /\ MessageHandler(u, Session(u).state, m) = "handle_stats"
  /\ UNCHANGED <<sessions, Tables, Reviews, entered, cdek, now, censor, pending>>
  /\ last' = Merge(Outcome(u, "handle_stats", Sent(m), NoError, "statistics"),
                   [stats |-> get_statistics(orders)])
  /\ e2e' = Track(u, 0)

(* The texts of total_price met in the table, each with the amount the     *)
(* revenue is to count for it.                                             *)
PriceTexts ==
  {<<<<"1", " ", "5", "0", "0", " ", "R">>, 150000>>,
   <<<<"2", "9", "9", ".", "5", "0", " ", "R">>, 29950>>,
   <<<<>>, 0>>,
   <<<<"a", "b", "c">>, 0>>,
   <<<<"R">>, 0>>,
   <<<<"1", ".", "2", ".", "3">>, 0>>,
   <<<<".">>, 0>>,
   <<<<"3", "0", "0", ".", "0">>, 30000>>,
   <<<<"1", ",", "5">>, 150>>,
   <<<<"1", ",", "5", "0", "0", ".", "5", "0">>, 150050>>}

Amount(row) ==
  IF Has(row, "total_price")
    THEN (CHOOSE p \in PriceTexts : p[1] = row.total_price)[2]
    ELSE 0

MaxSold == 2

OrderOf(id, price) ==
  Merge([id |-> id, user_id |-> 2, product_id |-> 1,
         product_name |-> InitialProducts[1].name, quantity |-> id,
         price_per_unit |-> <<"1">>, status |-> "completed"], price)

OrderTables ==
  UNION {{[i \in 1..n |-> OrderOf(i, f[i])]
          : f \in [1..n -> {[total_price |-> p[1]] : p \in PriceTexts}
                           \cup {EmptyData}]}
         : n \in 0..MaxSold}

InitStats ==
  /\ sessions = [u \in Users |-> [state |-> NoState, data |-> EmptyData]]
  /\ products = InitialProducts
  /\ products_id_seq = Len(InitialProducts)
  /\ orders \in OrderTables
  /\ reviews = <<>>
  /\ reviews_id_seq = 0
  /\ adminInbox = Len(orders)
  /\ cdek = [token_expires_at |-> 0]
  /\ now = 0
  /\ last = [user |-> 0, handler |-> "start", from |-> NoState,
             input |-> [kind |-> "none"], error |-> NoError,
             reply |-> NoReply, courier |-> "not_called"]
  /\ e2e = E2EOff
  /\ entered = [u \in Users |-> NoForm]
  /\ censor = WordsLoaded
  /\ pending = {}

NextStats ==
  \E u \in Users :
    \/ handle_stats(u, TextMessage(BtnStats))
    \/ echo_handler(u, TextMessage(BtnStats))

SpecStats == InitStats /\ [][NextStats]_vars

RECURSIVE SumOfAmounts(_)
SumOfAmounts(rows) ==
  IF rows = {} THEN 0
  ELSE LET row == CHOOSE r \in rows : TRUE
       IN  Amount(row) + SumOfAmounts(rows \ {row})

(* C29: the total revenue of the statistics is the sum over all orders of  *)
(* the amount extracted from total_price: 1500.00 for "1 500 R", 299.50    *)
(* for "299.50 R", 0.00 for an empty or unparseable text; an unparseable   *)
(* total_price neither aborts the statistics nor changes what the other    *)
(* orders contribute.                                                      *)
C29_Revenue ==
  [][last'.handler = "handle_stats"
     => /\ last'.error = NoError
        /\ Has(last', "stats")
        /\ last'.stats.total_revenue = SumOfAmounts(Rows(orders))]_vars

(* The statistics over an order of "1 500 R" and an order of "abc" *)
C29_Witness ==
  /\ last.handler = "handle_stats"
  /\ Len(orders) = 2
  /\ \A i \in 1..2 : Has(orders[i], "total_price")
  /\ orders[1].total_price = <<"1", " ", "5", "0", "0", " ", "R">>
  /\ orders[2].total_price = <<"a", "b", "c">>
  /\ last.stats.total_revenue = 150000

----------------------------------------------------------------------------
(* C30: a failure raised while one user's message or button press is       *)
(* handled is caught at the outermost boundary and reported to that user   *)
(* as the generic internal-error notice, and the other users' Sessions are *)
(* unchanged by it.                                                        *)
C30_FailureReported ==
  [][last'.error # NoError
     => /\ last'.reply = "internal_error"
        /\ \A v \in Users \ {last'.user} : sessions'[v] = sessions[v]]_vars

----------------------------------------------------------------------------
(* Edit Product over two products.  The administrator picks either         *)
(* product, picks the name, sends a value and finishes; the product list   *)
(* stays on screen, so a product can be picked at any time.                *)

InitShadow ==
  /\ sessions = [u \in Users |-> [state |-> NoState, data |-> EmptyData]]
  /\ products = TwoProducts
  /\ products_id_seq = Len(TwoProducts)
  /\ orders = <<>>
  /\ adminInbox = 0
  /\ cdek = [token_expires_at |-> 0]
  /\ now = 0
  /\ last = [user |-> 0, handler |-> "start", from |-> NoState,
             input |-> [kind |-> "none"], error |-> NoError,
             reply |-> NoReply, courier |-> "not_called"]
  /\ e2e = E2EOff
  /\ reviews = <<>>
  /\ reviews_id_seq = 0
  /\ entered = [u \in Users |-> NoForm]
  /\ censor = WordsLoaded
  /\ pending = {}

ShadowTokens ==
  {TokEditProduct \o str(1), TokEditProduct \o str(2), TokEditDone,
   TokEditField \o <<"n", "a", "m", "e">>}

NextShadow ==
  \E u \in Users :
    \/ \E m \in {TextMessage(<<"2", "5", "0">>)} :
         \/ edit_name(u, m)
         \/ echo_handler(u, m)
    \/ \E cb \in ShadowTokens :
         \/ process_edit_product(u, cb)
         \/ edit_field_selected(u, cb)
         \/ finish_editing(u, cb)

SpecShadow == InitShadow /\ [][NextShadow]_vars

(* C31: what edit_done writes to product P comes from P's own edit         *)
(* session only.  Stated for the runs in which edit_done is the event      *)
(* that follows the selection of P: no value was entered after P was       *)
(* selected, so a value entered earlier, for whichever product was         *)
(* selected then, is not written, and the catalog is left as it was.       *)
C31_OwnEditSession ==
  [][(/\ last.handler = "process_edit_product"
      /\ last.reply = "choose_field"
      /\ last'.handler = "finish_editing"
      /\ last'.user = last.user)
     => products' = products]_vars

----------------------------------------------------------------------------
(* The confirmation of an order pressed more than once.  Each user is at   *)
(* the contact step or at the confirmation of one Order flow; Telegram     *)
(* accepts every message.                                                  *)

AtConfirm ==
  [state |-> "FSMOrder:confirm",
   data |-> [product_id |-> 1, quantity |-> 2,
             city |-> <<"M", "o", "s", "k", "v", "a">>,
             pvz_list |-> <<ChosenPvz>>, selected_pvz |-> ChosenPvz,
             phone |-> PhoneExample]]

AtContact == [state |-> "FSMOrder:request_contact", data |-> Without(AtConfirm.data, "phone")]

InitDoubleTap ==
  /\ sessions \in [Users -> {AtConfirm, AtContact}]
  /\ products = InitialProducts
  /\ products_id_seq = Len(InitialProducts)
  /\ orders = <<>>
  /\ adminInbox = 0
  /\ cdek = [token_expires_at |-> 0]
  /\ now = 0
  /\ last = [user |-> 0, handler |-> "start", from |-> NoState,
             input |-> [kind |-> "none"], error |-> NoError,
             reply |-> NoReply, courier |-> "not_called"]
  /\ e2e = E2EOff
  /\ reviews = <<>>
  /\ reviews_id_seq = 0
  /\ entered = [u \in Users |-> NoForm]
  /\ censor = WordsLoaded
  /\ pending = {}

SentOrders ==
  {[user |-> u, handler |-> "confirm_order", order |-> k]
   : u \in Users, k \in 1..MaxTaps}

NextDoubleTap ==
  \/ \E u \in Users :
       \/ confirm_order(u, TokOrderConfirm, TRUE)
       \/ confirm_order_sending(u, TokOrderConfirm)
       \/ cancel_order(u, TokOrderCancel)
       \/ process_contact_text(u, TextMessage(PhoneExample))
  \/ \E p \in SentOrders : confirm_order_sent(p, TRUE)

SpecDoubleTap == InitDoubleTap /\ [][NextDoubleTap]_vars

(* C32: however often order_confirm is pressed in one Order flow, and      *)
(* whether a press is handled after the earlier handler has finished or    *)
(* while it is suspended at the notification, the flow leaves one Order    *)
(* and one notification of the administrator.  Each user has one flow.     *)
C32_DoubleTap ==
  /\ \A u \in Users : Len(OrdersOf(orders, u)) <= 1
  /\ adminInbox <= Cardinality({u \in Users : OrdersOf(orders, u) # <<>>})

----------------------------------------------------------------------------
(* The last step of the forms that notify.  The administrator is at the    *)
(* price of a new product, at the confirmation of an order or at the       *)
(* contact of a review, the customer at one of the latter two; Telegram    *)
(* accepts or refuses the message sent after the entity is saved.          *)

AtPrice ==
  [state |-> "FSMAdmin:price",
   data |-> [photo_file_id |-> "file2", name |-> CollectedName,
             weight |-> 25000, description |-> <<"t", "e", "a">>]]

AtReviewContact ==
  [state |-> "FSMReview:contact",
   data |-> [product_id |-> 1, text |-> <<"t", "e", "a">>]]

InitNotify ==
  /\ sessions \in {<<a, c>> : a \in {AtPrice, AtConfirm, AtReviewContact},
                              c \in {AtConfirm, AtReviewContact}}
  /\ products = InitialProducts
  /\ products_id_seq = Len(InitialProducts)
  /\ orders = <<>>
  /\ adminInbox = 0
  /\ cdek = [token_expires_at |-> 0]
  /\ now = 0
  /\ last = [user |-> 0, handler |-> "start", from |-> NoState,
             input |-> [kind |-> "none"], error |-> NoError,
             reply |-> NoReply, courier |-> "not_called"]
  /\ e2e = E2EOff
  /\ reviews = <<>>
  /\ reviews_id_seq = 0
  /\ entered = [u \in Users |-> NoForm]
  /\ censor = WordsLoaded
  /\ pending = {}

NextNotify ==
  \E delivered \in BOOLEAN :
    \/ \E u \in Users :
         \/ confirm_order(u, TokOrderConfirm, delivered)
         \/ confirm_order_sending(u, TokOrderConfirm)
         \/ load_price(u, TextMessage(<<"2", "5", "0">>), delivered)
         \/ load_review_contact(u, TextMessage(PhoneExample), delivered)
    \/ \E p \in SentOrders : confirm_order_sent(p, delivered)

SpecNotify == InitNotify /\ [][NextNotify]_vars

Notifying == {"confirm_order", "load_price", "load_review_contact"}

(* C33: a form run saves its entity at most once even when the message     *)
(* sent after the Order, the Product or the Review was saved is refused:   *)
(* the Session is cleared all the same, so that the final input given      *)
(* again saves no second copy.                                             *)
C33_SavedOnce ==
  [][(/\ last'.handler \in Notifying
      /\ last'.error \in {"TelegramError", "TelegramAPIError"})
     => sessions'[last'.user] = clear(sessions[last'.user])]_vars

----------------------------------------------------------------------------
(* Sessions overtaken by events.  Each user is idle, at the contact step   *)
(* or at the confirmation of an order; buttons of keyboards sent earlier   *)
(* are pressed, and the product of the order may be deleted meanwhile.     *)

InitStale ==
  /\ sessions \in [Users -> {Idle, AtContact, AtConfirm}]
  /\ products = InitialProducts
  /\ products_id_seq = Len(InitialProducts)
  /\ orders = <<>>
  /\ adminInbox = 0
  /\ cdek = [token_expires_at |-> 0]
  /\ now = 0
  /\ last = [user |-> 0, handler |-> "start", from |-> NoState,
             input |-> [kind |-> "none"], error |-> NoError,
             reply |-> NoReply, courier |-> "not_called"]
  /\ e2e = E2EOff
  /\ reviews = <<>>
  /\ reviews_id_seq = 0
  /\ entered = [u \in Users |-> NoForm]
  /\ censor = WordsLoaded
  /\ pending = {}

NextStale ==
  \E u \in Users :
    \/ handle_delete_product(u, TokDeleteProduct \o str(1))
    \/ process_contact_text(u, TextMessage(PhoneExample))
    \/ confirm_order(u, TokOrderConfirm, TRUE)
    \/ cancel_order(u, TokOrderCancel)
    \/ finish_editing(u, TokEditDone)
    \/ edit_field_selected(u, TokEditField \o <<"n", "a", "m", "e">>)
    \/ edit_name(u, TextMessage(<<"2", "5", "0">>))

SpecStale == InitStale /\ [][NextStale]_vars

(* C34: when the product chosen in an Order flow has been deleted before a *)
(* valid phone is accepted at the contact step, the failure does not       *)
(* propagate: the user is informed, no Order results, and the Session ends *)
(* idle, not in the confirm state without a confirmation prompt.           *)
C34_DeletedProduct ==
  [][(/\ last'.handler = "process_contact_text"
      /\ is_valid_phone(strip(last'.message.text))
      /\ Has(sessions[last'.user].data, "product_id")
      /\ Matching(products, sessions[last'.user].data.product_id) = <<>>)
     => /\ last'.error = NoError
        /\ last'.reply # NoReply
        /\ sessions'[last'.user] = Idle
        /\ orders' = orders]_vars

(* The Session fields a handler cannot do without *)
Required(handler) ==
  CASE handler = "confirm_order" -> {"selected_pvz", "quantity", "product_id"}
    [] handler \in {"paginate_pvz_list", "select_pvz_handler"} -> {"pvz_list"}
    [] handler \in {"process_contact_text", "finish_editing", "edit_name",
                    "edit_weight", "edit_description", "edit_price"}
         -> {"product_id"}
    [] OTHER -> {}

(* C35: a handler that finds a required Session field missing does not     *)
(* fail: the Session is cleared, the user is told to start the flow again, *)
(* and nothing is persisted.                                               *)
C35_StaleSession ==
  [][(/\ \E f \in Required(last'.handler) : ~Has(sessions[last'.user].data, f)
      /\ last'.handler = "process_contact_text"
           => is_valid_phone(strip(last'.message.text)))
     => /\ last'.error = NoError
        /\ last'.reply = "stale_session"
        /\ sessions'[last'.user] = Idle
        /\ <<products', orders', reviews'>> = <<products, orders, reviews>>]_vars

----------------------------------------------------------------------------
(* Deleting a review: database.delete_review_by_id and the delete_review_  *)
(* button of the administrator's review card                               *)

(* DELETE FROM reviews WHERE id <= %s *)
delete_review_upto(reviewRows, review_id) ==
  [deleted |-> \E i \in 1..Len(reviewRows) : reviewRows[i].id <= review_id,
   rows |-> SelectSeq(reviewRows, LAMBDA r : r.id > review_id)]

(* DELETE FROM reviews WHERE id = %s; deleted is rowcount > 0 *)
delete_review_by_id(reviewRows, review_id) ==
  [deleted |-> \E i \in 1..Len(reviewRows) : reviewRows[i].id = review_id,
   rows |-> SelectSeq(reviewRows, LAMBDA r : r.id # review_id)]

(* The handler catches every exception, a malformed id included; the       *)
(* statement runs before the handler's first await                         *)
delete_review(u, cb) ==
  /\ startswith(cb, TokDeleteReview)
  /\ CallbackHandler(u, Session(u).state, cb) = "delete_review"
  /\ UNCHANGED <<sessions, Tables, reviews_id_seq, entered, cdek, now, censor, pending>>
  /\ LET review_id == int(SplitLast(cb, "_"))
         success == delete_review_by_id(reviews, review_id.val)
     IN  IF ~review_id.ok
           THEN /\ UNCHANGED reviews
                /\ last' = Outcome(u, "delete_review", Pressed(cb), NoError,
                                   "delete_error")
           ELSE /\ reviews' = success.rows
                /\ last' = Outcome(u, "delete_review", Pressed(cb), NoError,
                                   IF success.deleted THEN "review_deleted"
                                   ELSE "review_not_found")
  /\ e2e' = Track(u, 0)

DeleteTokens == {TokDeleteReview \o str(k) : k \in 1..MaxPaged} \cup {TokDeleteReview}

NextDelete ==
  \E u \in Users, cb \in DeleteTokens : delete_review(u, cb)

SpecDelete == InitPaging /\ [][NextDelete]_vars

(* C37: a press of delete_review_<id> for a stored Review removes exactly  *)
(* that Review and reports success; a press for a Review already removed   *)
(* (the second of a double press) reports not-found without failing and    *)
(* changes nothing; no other Review is changed by either.                  *)
C37_DeleteIdempotent ==
  [][(last'.handler = "delete_review" /\ int(SplitLast(last'.input.data, "_")).ok)
     => LET k == int(SplitLast(last'.input.data, "_")).val
            stored == \E i \in 1..Len(reviews) : reviews[i].id = k
        IN  /\ last'.error = NoError
            /\ last'.reply = (IF stored THEN "review_deleted" ELSE "review_not_found")
            /\ reviews' = SelectSeq(reviews, LAMBDA r : r.id # k)
            /\ ~stored => reviews' = reviews
            /\ (last.handler = "delete_review" /\ last.input = last'.input)
                 => (last'.reply = "review_not_found" /\ reviews' = reviews)]_vars

(* A second press: the Review was stored once (ids are handed out in order *)
(* and never again) and is reported missing, while another Review remains  *)
C37_Witness ==
  /\ last.handler = "delete_review"
  /\ last.reply = "review_not_found"
  /\ int(SplitLast(last.input.data, "_")).val \in 1..reviews_id_seq
  /\ reviews # <<>>

----------------------------------------------------------------------------
(* Concurrent token requests.  The handlers of both users share the one    *)
(* CDEKClient of the module; _get_token reads the clock and the cache,     *)
(* awaits the POST to /oauth/token, and stores the answer.  The steps      *)
(* below are the two halves of _get_token around that await, run for the   *)
(* courier call of a user's handler.                                       *)

RaceResponses ==
  {[kind |-> "ok", access_token |-> "t1", expires_in |-> 3600],
   [kind |-> "ok", access_token |-> "t2", expires_in |-> 1800],
   [kind |-> "http_error"], [kind |-> "network_error"]}

MaxAwaiting == 2

(* _get_token up to its await: the cached token, or the request is sent *)
_get_token_requested(u) ==
  /\ Cardinality(pending) < MaxAwaiting
  /\ \A p \in pending : p.user # u
  /\ IF Has(cdek, "access_token") /\ cdek.token_expires_at > now
       THEN /\ UNCHANGED pending
            /\ last' = Merge(Outcome(u, "_get_token", [kind |-> "none"], NoError,
                                     "cached"),
                             [token |-> cdek.access_token, found |-> cdek])
       ELSE /\ pending' = pending \cup {[user |-> u, handler |-> "_get_token",
                                         order |-> now]}
            /\ last' = Merge(Outcome(u, "_get_token", [kind |-> "none"], NoError,
                                     "awaiting"),
                             [found |-> cdek])
  /\ UNCHANGED <<sessions, Tables, Reviews, entered, cdek, now, e2e, censor>>

(* The cache after the answer, the later of the two expiries kept *)
token_stored_latest(client, started, resp) ==
  IF resp.kind = "ok"
    THEN [access_token |-> resp.access_token,
          token_expires_at |->
            IF client.token_expires_at > started + resp.expires_in - TokenMargin
              THEN client.token_expires_at
              ELSE started + resp.expires_in - TokenMargin]
    ELSE client

(* The cache after the answer: raise_for_status and the two assignments,   *)
(* with the clock value read before the request                            *)
token_stored(client, started, resp) ==
  IF resp.kind = "ok"
    THEN [access_token |-> resp.access_token,
          token_expires_at |-> started + resp.expires_in - TokenMargin]
    ELSE client

(* _get_token from its await on *)
_get_token_received(p, resp) ==
  /\ p \in pending
  /\ p.handler = "_get_token"
  /\ pending' = pending \ {p}
  /\ cdek' = token_stored(cdek, p.order, resp)
  /\ last' = Merge(Outcome(p.user, "_get_token", [kind |-> "none"],
                           IF resp.kind = "ok" THEN NoError
                           ELSE IF resp.kind = "http_error" THEN "HTTPStatusError"
                           ELSE "NetworkError",
                           "token"),
                   Merge([found |-> cdek, response |-> resp, started |-> p.order],
                         IF resp.kind = "ok"
                           THEN [token |-> token_stored(cdek, p.order, resp).access_token]
                           ELSE EmptyData))
  /\ UNCHANGED <<sessions, Tables, Reviews, entered, now, e2e, censor>>

TokenCalls ==
  {[user |-> u, handler |-> "_get_token", order |-> t] : u \in Users, t \in Instants \cup {0}}

NextRace ==
  \/ time_passes
  \/ \E u \in Users : _get_token_requested(u)
  \/ \E p \in TokenCalls, resp \in RaceResponses : _get_token_received(p, resp)

SpecRace == InitToken /\ [][NextRace]_vars

(* The token and the expiry of one answer to a request sent at some time *)
OfOneResponse(client) ==
  \E r \in {x \in RaceResponses : x.kind = "ok"}, t \in Instants \cup {0} :
    client = [access_token |-> r.access_token,
              token_expires_at |-> t + r.expires_in - TokenMargin]

(* C36: however concurrent courier calls that found no usable token        *)
(* interleave, the cache holds a token together with the expiry computed   *)
(* from the same response, every caller receives a token that some         *)
(* response returned, and a failed token request leaves the cache as it    *)
(* was.                                                                    *)
C36_TokenRace ==
  [][/\ Has(cdek', "access_token") => OfOneResponse(cdek')
     /\ (last'.handler = "_get_token" /\ Has(last', "response"))
          => IF last'.response.kind = "ok"
               THEN /\ last'.error = NoError
                    /\ last'.token = last'.response.access_token
                    /\ cdek' = [access_token |-> last'.response.access_token,
                                token_expires_at |->
                                  last'.started + last'.response.expires_in - 60]
               ELSE /\ last'.error # NoError
                    /\ ~Has(last', "token")
                    /\ cdek' = cdek
     /\ (last'.handler = "_get_token" /\ Has(last', "token"))
          => \E r \in RaceResponses : r.kind = "ok" /\ r.access_token = last'.token]_vars

(* An answer arrives after the answer to a concurrent call was stored      *)
(* during its await, and replaces that token                               *)
C36_Witness ==
  /\ last.handler = "_get_token"
  /\ Has(last, "response")
  /\ last.response.kind = "ok"
  /\ Has(last.found, "access_token")
  /\ last.found.token_expires_at > now
  /\ last.found.access_token # last.token
  /\ cdek.access_token = last.token

----------------------------------------------------------------------------
(* C38: for an existing product with at least one review, show_reviews_<id> *)
(* completes without failure and shows page 1 with min(per_page, total)     *)
(* reviews, and reviews_page_<id>_<p> with p in 1..ceil(total / per_page)   *)
(* completes and shows the reviews of page p.                               *)
C38_PagesShown ==
  [][(/\ last'.handler \in {"show_reviews_for_product", "reviews_pagination"}
      /\ Has(last', "paged")
      /\ \E i \in 1..Len(products) : products[i].id = last'.request.product_id
      /\ last'.paged.total >= 1
      /\ last'.request.page \in 1..total_pages(last'.paged.total, per_page))
     => /\ last'.error = NoError
        /\ last'.reply # NoReply
        /\ last'.request.page = 1
             => Len(last'.paged.reviews)
                = (IF last'.paged.total < per_page THEN last'.paged.total
                   ELSE per_page)]_vars

----------------------------------------------------------------------------
(* C39: in select_pvz a pvz_page_<n> press is handled as navigation only:  *)
(* it selects no point, makes no courier call and leaves the Session's     *)
(* state and fields as they were; a pvz_<code> press whose code is not in  *)
(* the Session's pvz_list leaves the Session unchanged too.                *)
C39_NavigationOnly ==
  [][/\ (/\ last'.from = "FSMOrder:select_pvz"
         /\ last'.input.kind = "callback"
         /\ startswith(last'.input.data, TokPvzPage))
          => /\ last'.handler = "paginate_pvz_list"
             /\ sessions' = sessions
             /\ cdek' = cdek
             /\ last'.courier = "not_called"
     /\ (/\ last'.handler = "select_pvz_handler"
         /\ Has(sessions[last'.user].data, "pvz_list")
         /\ \A i \in 1..Len(sessions[last'.user].data.pvz_list) :
              sessions[last'.user].data.pvz_list[i].code
              # AfterPrefix(last'.input.data, TokPvz))
          => sessions' = sessions]_vars

(* A page of the list was shown and the user is still choosing *)
C39_Witness ==
  /\ last.handler = "paginate_pvz_list"
  /\ last.reply = "pvz_page"
  /\ sessions[last.user].state = "FSMOrder:select_pvz"
  /\ ~Has(sessions[last.user].data, "selected_pvz")

----------------------------------------------------------------------------
(* C40: only the administrator changes the catalog: no event of another    *)
(* user (the presses edit_product_<id>, edit_field_<name>, edit_done and   *)
(* delete_product_<id> included) creates, updates or deletes a Product,    *)
(* and that user's Session never enters a state of the Add Product or the  *)
(* Edit Product form.                                                      *)
C40_AdminOnly ==
  [][(last'.user \in Users /\ ~is_admin(last'.user) /\ last' # last)
     => /\ products' = products
        /\ sessions'[last'.user].state \notin FSMAdmin \cup FSMAdminEdit]_vars

====
